---- MODULE Spec2Model ----
(***************************************************************************)
(* karnaugh-map-app in three parts that share one set of variables.        *)
(*                                                                         *)
(* Spec: the Quine-McCluskey minimisation engine, QuineMcCluskeySolver     *)
(* .solve and the Table1 / Table2 data structures it drives.  One call of  *)
(* solve is a process whose position is pc; the arguments of the call are  *)
(* chosen in Init.                                                         *)
(* SpecCover runs the same call on duplicate-free ascending lists with     *)
(* more terms, so that the residual selection makes several iterations.    *)
(*                                                                         *)
(* SpecCalls: single calls of RequiredLoop.toString and of Table1Record    *)
(* .fromMinterm, .canCombineWith and .combineWith; the call is chosen in   *)
(* Init (invoked) and its result is kept in returned.                      *)
(*                                                                         *)
(* SpecMap, SpecGrid: NgKarnaughMapComponent, its grid of cells in Gray    *)
(* code order and its public operations, one action per operation.        *)
(* SpecMap interleaves all operations on small maps; SpecGrid builds the   *)
(* grids of 1 to MaxGridVars variables and writes single cells.            *)
(* SpecAsync interleaves the operations with solveAutomatically calls that *)
(* are suspended at their awaits.                                          *)
(***************************************************************************)
EXTENDS Integers, Sequences, FiniteSets, TLC

(***************************************************************************)
(* Bounds of the model.                                                    *)
(***************************************************************************)
\* largest variable count passed to solve
MaxVars == 3
\* largest term in the lists passed to solve
MaxTerm == 4
\* largest total length of the two lists passed to solve
MaxTotal == 4
\* longest bit pattern of the records handed to canCombineWith and combineWith
MaxBits == 2
\* longest minterm list of those records
MaxMinterms == 1
\* largest number of input variables of the map when its operations interleave
MaxMapVars == 2
\* largest number of cells that hold a value or are selected
MaxMarked == 1
\* largest number of cells that hold a value in the grids of up to
\* MaxGridVars variables
MaxFilled == 1

\* largest number of cells that hold a value while solveAutomatically calls
\* are suspended, and largest number of suspended calls
MaxValued == 2
MaxInFlight == 1
\* largest term of the calls of solve with ascending lists that share no term
MaxCoverTerm == 7
\* largest number of terms of those calls, both lists together
MaxCover == 5
\* largest number of input variables of the grids built by initializeGrid
\* (the editor is documented for 2 to 6 variables)
MaxGridVars == 6

(***************************************************************************)
(* ELogicState                                                             *)
(***************************************************************************)
ELogicState_False == 0
ELogicState_True == 1
ELogicState_DontCare == 2

(***************************************************************************)
(* Array helpers (JavaScript built-ins used by the code).                  *)
(***************************************************************************)
SeqToSet(s) == {s[i] : i \in DOMAIN s}

Contains(s, x) == \E i \in DOMAIN s : s[i] = x

\* [...a, ...b]
Spread(a, b) == a \o b

\* [...new Set(s)]: first occurrences, in order
RECURSIVE NewSetFrom(_, _)
NewSetFrom(s, acc) ==
  IF s = <<>> THEN acc
  ELSE NewSetFrom(Tail(s), IF Contains(acc, Head(s)) THEN acc ELSE Append(acc, Head(s)))

NewSet(s) == NewSetFrom(s, <<>>)

\* s.sort((a, b) => a - b): insertion of x after every element that is not
\* greater than x (Array.prototype.sort is stable)
RECURSIVE InsertAscending(_, _)
InsertAscending(sorted, x) ==
  IF sorted = <<>> THEN <<x>>
  ELSE IF x - Head(sorted) < 0 THEN <<x>> \o sorted
  ELSE <<Head(sorted)>> \o InsertAscending(Tail(sorted), x)

RECURSIVE SortAscendingFrom(_, _)
SortAscendingFrom(s, acc) ==
  IF s = <<>> THEN acc
  ELSE SortAscendingFrom(Tail(s), InsertAscending(acc, Head(s)))

SortAscending(s) == SortAscendingFrom(s, <<>>)

\* Math.max(...s) of a non-empty array
MathMax(s) == CHOOSE m \in SeqToSet(s) : \A x \in SeqToSet(s) : x <= m

Pow2(n) == 2 ^ n

(***************************************************************************)
(* JavaScript numbers that are not integers appear in one place only: the  *)
(* detected variable count, which is -Infinity when the largest term is -1.*)
(* A variable count is a record [finite, n].                               *)
(***************************************************************************)
Num(n) == [finite |-> TRUE, n |-> n]
NegInfinity == [finite |-> FALSE, n |-> 0]

\* ToInt32 of a variable count (shift operand): non-finite values become 0
ToInt32(v) == IF v.finite THEN v.n ELSE 0

\* 1 << v: the shift count is taken modulo 32 and the result is an int32
ShiftLeftOne(v) ==
  LET s == ToInt32(v) % 32
  IN IF s = 31 THEN (-2147483647) - 1 ELSE Pow2(s)

\* Math.ceil(Math.log2(n)) for an integer n >= 0: log2(0) is -Infinity
RECURSIVE CeilLog2From(_, _)
CeilLog2From(n, k) == IF Pow2(k) >= n THEN k ELSE CeilLog2From(n, k + 1)

CeilLog2(n) == IF n = 0 THEN NegInfinity ELSE Num(CeilLog2From(n, 0))

(***************************************************************************)
(* Table1Record                                                            *)
(***************************************************************************)
Table1Record(ms, bs) == [minterms |-> ms, bits |-> bs, isUsed |-> FALSE]

\* number of iterations of "for (let i = numVariables - 1; i >= 0; i--)"
BitCount(numVars) == IF numVars.finite /\ numVars.n > 0 THEN numVars.n ELSE 0

\* mutant of BitOf: the shift is missing
BitOf_noShift(minterm, i) == minterm % 2

\* (minterm >> i) & 1, two's complement
BitOf(minterm, i) == (minterm \div Pow2(i)) % 2

\* mutant of fromMinterm: the bits are pushed least significant first
fromMinterm_lsbFirst(minterm, numVars) ==
  LET n == BitCount(numVars)
  IN Table1Record(<<minterm>>,
       [k \in 1..n |-> IF BitOf(minterm, k - 1) = 1
                       THEN ELogicState_True ELSE ELogicState_False])

fromMinterm(minterm, numVars) ==
  LET n == BitCount(numVars)
  IN Table1Record(<<minterm>>,
       [k \in 1..n |-> IF BitOf(minterm, n - k) = 1
                       THEN ELogicState_True ELSE ELogicState_False])

countOnes(r) == Cardinality({i \in DOMAIN r.bits : r.bits[i] = ELogicState_True})

\* mutant of canCombineLoop: the test "differCount > 1" is missing
RECURSIVE canCombineLoop_noCountCheck(_, _, _, _, _)
canCombineLoop_noCountCheck(a, b, i, differingPosition, differCount) ==
  IF i >= Len(a.bits) THEN differingPosition
  ELSE IF a.bits[i + 1] # b.bits[i + 1]
       THEN IF a.bits[i + 1] = ELogicState_DontCare \/ b.bits[i + 1] = ELogicState_DontCare
            THEN -1
            ELSE canCombineLoop_noCountCheck(a, b, i + 1, i, differCount + 1)
       ELSE canCombineLoop_noCountCheck(a, b, i + 1, differingPosition, differCount)

\* mutant of canCombineLoop: only the receiver's bit is tested for DontCare
RECURSIVE canCombineLoop_thisDontCareOnly(_, _, _, _, _)
canCombineLoop_thisDontCareOnly(a, b, i, differingPosition, differCount) ==
  IF i >= Len(a.bits) THEN differingPosition
  ELSE IF a.bits[i + 1] # b.bits[i + 1]
       THEN IF a.bits[i + 1] = ELogicState_DontCare
            THEN -1
            ELSE IF differCount + 1 > 1
                 THEN -1
                 ELSE canCombineLoop_thisDontCareOnly(a, b, i + 1, i, differCount + 1)
       ELSE canCombineLoop_thisDontCareOnly(a, b, i + 1, differingPosition, differCount)

\* mutant of canCombineLoop: the test for DontCare is missing
RECURSIVE canCombineLoop_noDontCareTest(_, _, _, _, _)
canCombineLoop_noDontCareTest(a, b, i, differingPosition, differCount) ==
  IF i >= Len(a.bits) THEN differingPosition
  ELSE IF a.bits[i + 1] # b.bits[i + 1]
       THEN IF differCount + 1 > 1
            THEN -1
            ELSE canCombineLoop_noDontCareTest(a, b, i + 1, i, differCount + 1)
       ELSE canCombineLoop_noDontCareTest(a, b, i + 1, differingPosition, differCount)

RECURSIVE canCombineLoop(_, _, _, _, _)
canCombineLoop(a, b, i, differingPosition, differCount) ==
  IF i >= Len(a.bits) THEN differingPosition
  ELSE IF a.bits[i + 1] # b.bits[i + 1]
       THEN IF a.bits[i + 1] = ELogicState_DontCare \/ b.bits[i + 1] = ELogicState_DontCare
            THEN -1
            ELSE IF differCount + 1 > 1
                 THEN -1
                 ELSE canCombineLoop(a, b, i + 1, i, differCount + 1)
       ELSE canCombineLoop(a, b, i + 1, differingPosition, differCount)

canCombineWith(a, b) ==
  IF Len(a.bits) # Len(b.bits) THEN -1 ELSE canCombineLoop(a, b, 0, -1, 0)

\* mutant of combineWith: the differing position is not set to DontCare
combineWith_bitsUnchanged(a, b, position) ==
  Table1Record(SortAscending(NewSet(Spread(a.minterms, b.minterms))), a.bits)

\* mutant of combineWith: the merged minterms are not sorted
combineWith_unsorted(a, b, position) ==
  Table1Record(NewSet(Spread(a.minterms, b.minterms)),
               [a.bits EXCEPT ![position + 1] = ELogicState_DontCare])

\* mutant of combineWith: the minterms of the other record are left out
combineWith_thisMintermsOnly(a, b, position) ==
  Table1Record(SortAscending(NewSet(a.minterms)),
               [a.bits EXCEPT ![position + 1] = ELogicState_DontCare])

combineWith(a, b, position) ==
  Table1Record(SortAscending(NewSet(Spread(a.minterms, b.minterms))),
               [a.bits EXCEPT ![position + 1] = ELogicState_DontCare])

\* String(n) for an integer n
Digit(d) == <<"0", "1", "2", "3", "4", "5", "6", "7", "8", "9">>[d + 1]

RECURSIVE Digits(_)
Digits(n) == IF n < 10 THEN Digit(n) ELSE Digits(n \div 10) \o Digit(n % 10)

NumberToString(n) == IF n < 0 THEN "-" \o Digits(-n) ELSE Digits(n)

\* minterms.join(',')
RECURSIVE Join(_)
Join(ms) ==
  IF ms = <<>> THEN ""
  ELSE IF Len(ms) = 1 THEN NumberToString(ms[1])
  ELSE NumberToString(Head(ms)) \o "," \o Join(Tail(ms))

getKey(r) == Join(r.minterms)

(***************************************************************************)
(* Table1Group and Table1Column.  A column is its Map of groups in         *)
(* insertion order: a sequence of [onesCount, records].                    *)
(***************************************************************************)
Table1Group(onesCount) == [onesCount |-> onesCount, records |-> <<>>]

containsRecord(group, record) ==
  \E i \in DOMAIN group.records : getKey(group.records[i]) = getKey(record)

Table1Column == <<>>

\* index of the group stored under the key onesCount, 0 when there is none
GroupIndex(column, onesCount) ==
  IF \E g \in DOMAIN column : column[g].onesCount = onesCount
  THEN CHOOSE g \in DOMAIN column : column[g].onesCount = onesCount
  ELSE 0

\* the column after getOrCreateGroup(onesCount)
getOrCreateGroup(column, onesCount) ==
  IF GroupIndex(column, onesCount) = 0
  THEN Append(column, Table1Group(onesCount))
  ELSE column

\* mutant of addRecord: the duplicate check is missing
addRecord_noDuplicateCheck(column, record) ==
  LET onesCount == countOnes(record)
      col == getOrCreateGroup(column, onesCount)
      g == GroupIndex(col, onesCount)
  IN [col EXCEPT ![g].records = Append(@, record)]

addRecord(column, record) ==
  LET onesCount == countOnes(record)
      col == getOrCreateGroup(column, onesCount)
      g == GroupIndex(col, onesCount)
  IN IF ~containsRecord(col[g], record)
     THEN [col EXCEPT ![g].records = Append(@, record)]
     ELSE col

\* group indices of the column in ascending order of their key
RECURSIVE InsertGroupKey(_, _, _)
InsertGroupKey(column, sorted, g) ==
  IF sorted = <<>> THEN <<g>>
  ELSE IF column[g].onesCount - column[Head(sorted)].onesCount < 0 THEN <<g>> \o sorted
  ELSE <<Head(sorted)>> \o InsertGroupKey(column, Tail(sorted), g)

RECURSIVE SortGroupKeys(_, _, _)
SortGroupKeys(column, g, acc) ==
  IF g > Len(column) THEN acc
  ELSE SortGroupKeys(column, g + 1, InsertGroupKey(column, acc, g))

getSortedGroups(column) == SortGroupKeys(column, 1, <<>>)

\* mutant of UnusedOfGroup: the used records are kept too
UnusedOfGroup_all(records, i) == records

RECURSIVE UnusedOfGroup(_, _)
UnusedOfGroup(records, i) ==
  IF i > Len(records) THEN <<>>
  ELSE (IF ~records[i].isUsed THEN <<records[i]>> ELSE <<>>) \o UnusedOfGroup(records, i + 1)

RECURSIVE UnusedFromGroup(_, _)
UnusedFromGroup(column, g) ==
  IF g > Len(column) THEN <<>>
  ELSE UnusedOfGroup(column[g].records, 1) \o UnusedFromGroup(column, g + 1)

getUnusedRecords(column) == UnusedFromGroup(column, 1)

RECURSIVE AllFromGroup(_, _)
AllFromGroup(column, g) ==
  IF g > Len(column) THEN <<>>
  ELSE column[g].records \o AllFromGroup(column, g + 1)

getAllRecords(column) == AllFromGroup(column, 1)

isEmpty(column) == Len(column) = 0

(***************************************************************************)
(* QuineMcCluskeySolver.combineColumn.  The three nested loops run over    *)
(* (i, record1, record2); the state they change is the isUsed flags of     *)
(* the column and the next column.                                         *)
(***************************************************************************)
\* one execution of the body of the innermost loop
CombinePair(st, g1, a, g2, b) ==
  LET record1 == st.column[g1].records[a]
      record2 == st.column[g2].records[b]
      differPos == canCombineWith(record1, record2)
  IN IF differPos >= 0
     THEN [column |-> [st.column EXCEPT ![g1].records[a].isUsed = TRUE,
                                        ![g2].records[b].isUsed = TRUE],
           nextColumn |-> addRecord(st.nextColumn, combineWith(record1, record2, differPos))]
     ELSE st

RECURSIVE CombineLoop(_, _, _, _, _)
CombineLoop(st, groups, i, a, b) ==
  IF i > Len(groups) - 1 THEN st
  ELSE LET g1 == groups[i]
           g2 == groups[i + 1]
       IN IF a > Len(st.column[g1].records) THEN CombineLoop(st, groups, i + 1, 1, 1)
          ELSE IF b > Len(st.column[g2].records) THEN CombineLoop(st, groups, i, a + 1, 1)
          ELSE CombineLoop(CombinePair(st, g1, a, g2, b), groups, i, a, b + 1)

\* [column: the column with its isUsed flags set, nextColumn: the result]
combineColumn(column) ==
  CombineLoop([column |-> column, nextColumn |-> Table1Column],
              getSortedGroups(column), 1, 1, 1)

RECURSIVE DedupLoop(_, _, _)
DedupLoop(implicants, seen, unique) ==
  IF implicants = <<>> THEN unique
  ELSE LET imp == Head(implicants)
           key == getKey(imp)
       IN IF key \notin seen
          THEN DedupLoop(Tail(implicants), seen \cup {key}, Append(unique, imp))
          ELSE DedupLoop(Tail(implicants), seen, unique)

deduplicatePrimeImplicants(implicants) == DedupLoop(implicants, {}, <<>>)

\* the first column of findPrimeImplicants
RECURSIVE FirstColumnFrom(_, _, _)
FirstColumnFrom(allTerms, numVars, column) ==
  IF allTerms = <<>> THEN column
  ELSE FirstColumnFrom(Tail(allTerms), numVars,
                       addRecord(column, fromMinterm(Head(allTerms), numVars)))

FirstColumn(ms, dcs, numVars) ==
  FirstColumnFrom(NewSet(Spread(ms, dcs)), numVars, Table1Column)

(***************************************************************************)
(* Table2Row, Table2Column, Table2.  A table is [rows, columns,            *)
(* uncoveredMinterms].                                                     *)
(***************************************************************************)
Table2Row(record) == [record |-> record, isSelected |-> FALSE]

Table2Column(minterm) == [minterm |-> minterm, isCovered |-> FALSE]

\* the keys of the coverage Map, in insertion order
getCoveredMinterms(row) == NewSet(row.record.minterms)

coversMinterm(row, minterm) == Contains(getCoveredMinterms(row), minterm)

countCoverage(row, uncovered) ==
  Cardinality({i \in DOMAIN getCoveredMinterms(row) : getCoveredMinterms(row)[i] \in uncovered})

getLiteralCount(row) ==
  Cardinality({i \in DOMAIN row.record.bits : row.record.bits[i] # 2})

Table2(primeImplicants, ms) ==
  [rows |-> [i \in DOMAIN primeImplicants |-> Table2Row(primeImplicants[i])],
   columns |-> [c \in DOMAIN ms |-> Table2Column(ms[c])],
   uncoveredMinterms |-> SeqToSet(ms)]

\* this.columns.find((c) => c.minterm === minterm): the first such column, 0 if none
FindColumn(cols, minterm) ==
  IF \E c \in DOMAIN cols : cols[c].minterm = minterm
  THEN CHOOSE c \in DOMAIN cols :
         /\ cols[c].minterm = minterm
         /\ \A d \in DOMAIN cols : cols[d].minterm = minterm => c <= d
  ELSE 0

RECURSIVE MarkCoveredLoop(_, _)
MarkCoveredLoop(t, covered) ==
  IF covered = <<>> THEN t
  ELSE LET minterm == Head(covered)
           c == FindColumn(t.columns, minterm)
       IN MarkCoveredLoop(
            [t EXCEPT !.columns = IF c # 0 THEN [@ EXCEPT ![c].isCovered = TRUE] ELSE @,
                      !.uncoveredMinterms = @ \ {minterm}],
            Tail(covered))

markCovered(t, r) == MarkCoveredLoop(t, getCoveredMinterms(t.rows[r]))

\* indices of the rows kept by this.rows.filter(...)
CoveringRows(t, minterm) ==
  {r \in DOMAIN t.rows : ~t.rows[r].isSelected /\ coversMinterm(t.rows[r], minterm)}

\* mutant of EssentialLoop: the assignment essentialRow.isSelected = true
\* is missing
RECURSIVE EssentialLoop_notSelected(_, _)
EssentialLoop_notSelected(st, c) ==
  IF c > Len(st.table.columns) THEN st
  ELSE IF st.table.columns[c].isCovered THEN EssentialLoop_notSelected(st, c + 1)
  ELSE LET coveringRows == CoveringRows(st.table, st.table.columns[c].minterm)
       IN IF Cardinality(coveringRows) = 1
          THEN LET essentialRow == CHOOSE r \in coveringRows : TRUE
               IN EssentialLoop_notSelected(
                    [table |-> markCovered(st.table, essentialRow),
                     essential |-> Append(st.essential, essentialRow)],
                    c + 1)
          ELSE EssentialLoop_notSelected(st, c + 1)

\* the loop over this.columns; st is [table, essential], essential the list
\* of the rows pushed so far (as row indices)
RECURSIVE EssentialLoop(_, _)
EssentialLoop(st, c) ==
  IF c > Len(st.table.columns) THEN st
  ELSE IF st.table.columns[c].isCovered THEN EssentialLoop(st, c + 1)
  ELSE LET coveringRows == CoveringRows(st.table, st.table.columns[c].minterm)
       IN IF Cardinality(coveringRows) = 1
          THEN LET essentialRow == CHOOSE r \in coveringRows : TRUE
               IN IF ~st.table.rows[essentialRow].isSelected
                  THEN EssentialLoop(
                         [table |-> markCovered(
                                      [st.table EXCEPT !.rows[essentialRow].isSelected = TRUE],
                                      essentialRow),
                          essential |-> Append(st.essential, essentialRow)],
                         c + 1)
                  ELSE EssentialLoop(st, c + 1)
          ELSE EssentialLoop(st, c + 1)

\* [table: the table afterwards, essential: the returned rows]
findEssentialPrimeImplicants(t) == EssentialLoop([table |-> t, essential |-> <<>>], 1)

getUncoveredMinterms(t) == t.uncoveredMinterms

RECURSIVE RowsWhere(_, _, _)
RowsWhere(t, sel, r) ==
  IF r > Len(t.rows) THEN <<>>
  ELSE (IF t.rows[r].isSelected = sel THEN <<r>> ELSE <<>>) \o RowsWhere(t, sel, r + 1)

\* row indices, in the order of this.rows
getUnselectedRows(t) == RowsWhere(t, FALSE, 1)

\* mutant of getSelectedRows: the filter is negated
getSelectedRows_unselected(t) == RowsWhere(t, FALSE, 1)

\* mutant of getSelectedRows: the rows come out last first
getSelectedRows_reversed(t) ==
  LET sel == RowsWhere(t, TRUE, 1)
  IN [i \in DOMAIN sel |-> sel[Len(sel) + 1 - i]]

getSelectedRows(t) == RowsWhere(t, TRUE, 1)

isFullyCovered(t) == Cardinality(t.uncoveredMinterms) = 0

selectRow(t, r) == markCovered([t EXCEPT !.rows[r].isSelected = TRUE], r)

(***************************************************************************)
(* QuineMcCluskeySolver.applyPetricksMethod                                *)
(***************************************************************************)
\* .filter((row) => row.countCoverage(uncovered) > 0)
\* mutant of FilterCovering: the filter keeps rows covering more than one
RECURSIVE FilterCovering_moreThanOne(_, _, _)
FilterCovering_moreThanOne(t, rs, uncovered) ==
  IF rs = <<>> THEN <<>>
  ELSE (IF countCoverage(t.rows[Head(rs)], uncovered) > 1 THEN <<Head(rs)>> ELSE <<>>)
       \o FilterCovering_moreThanOne(t, Tail(rs), uncovered)

RECURSIVE FilterCovering(_, _, _)
FilterCovering(t, rs, uncovered) ==
  IF rs = <<>> THEN <<>>
  ELSE (IF countCoverage(t.rows[Head(rs)], uncovered) > 0 THEN <<Head(rs)>> ELSE <<>>)
       \o FilterCovering(t, Tail(rs), uncovered)

\* mutant of CompareCandidates: on equal coverage the row with more literals
\* comes first
CompareCandidates_moreLiterals(t, currentUncovered, a, b) ==
  LET coverageDiff == countCoverage(t.rows[b], currentUncovered)
                      - countCoverage(t.rows[a], currentUncovered)
  IN IF coverageDiff # 0 THEN coverageDiff
     ELSE getLiteralCount(t.rows[b]) - getLiteralCount(t.rows[a])

\* the comparator of candidates.sort
CompareCandidates(t, currentUncovered, a, b) ==
  LET coverageDiff == countCoverage(t.rows[b], currentUncovered)
                      - countCoverage(t.rows[a], currentUncovered)
  IN IF coverageDiff # 0 THEN coverageDiff
     ELSE getLiteralCount(t.rows[a]) - getLiteralCount(t.rows[b])

\* candidates.sort(comparator): stable
RECURSIVE InsertCandidate(_, _, _, _)
InsertCandidate(t, currentUncovered, sorted, x) ==
  IF sorted = <<>> THEN <<x>>
  ELSE IF CompareCandidates(t, currentUncovered, x, Head(sorted)) < 0 THEN <<x>> \o sorted
  ELSE <<Head(sorted)>> \o InsertCandidate(t, currentUncovered, Tail(sorted), x)

RECURSIVE SortCandidatesFrom(_, _, _, _)
SortCandidatesFrom(t, currentUncovered, rs, acc) ==
  IF rs = <<>> THEN acc
  ELSE SortCandidatesFrom(t, currentUncovered, Tail(rs),
                          InsertCandidate(t, currentUncovered, acc, Head(rs)))

SortCandidates(t, currentUncovered, rs) == SortCandidatesFrom(t, currentUncovered, rs, <<>>)

\* the candidates of one iteration of the while loop, sorted
Candidates(t) ==
  SortCandidates(t, getUncoveredMinterms(t),
                 FilterCovering(t, getUnselectedRows(t), getUncoveredMinterms(t)))

\* the guards before the loop: TRUE when applyPetricksMethod returns at once
PetrickReturnsAtOnce(t) ==
  \/ Cardinality(getUncoveredMinterms(t)) = 0
  \/ Len(getUnselectedRows(t)) = 0
  \/ Len(FilterCovering(t, getUnselectedRows(t), getUncoveredMinterms(t))) = 0

(***************************************************************************)
(* RequiredLoop                                                            *)
(***************************************************************************)
RequiredLoop(ms, bs) == [minterms |-> SortAscending(ms), bits |-> bs]

\* inputVariables[i] || `x${i}` (i is 0-based; an empty name is falsy)
VarName(inputVariables, i) ==
  IF i + 1 <= Len(inputVariables) /\ inputVariables[i + 1] # ""
  THEN inputVariables[i + 1]
  ELSE "x" \o NumberToString(i)

\* mutant of TermsFrom: the apostrophe marks True instead of False
RECURSIVE TermsFrom_complementTrue(_, _, _)
TermsFrom_complementTrue(bs, inputVariables, i) ==
  IF i >= Len(bs) THEN ""
  ELSE (IF bs[i + 1] = ELogicState_False THEN VarName(inputVariables, i)
        ELSE IF bs[i + 1] = ELogicState_True THEN VarName(inputVariables, i) \o "'"
        ELSE "")
       \o TermsFrom_complementTrue(bs, inputVariables, i + 1)

\* the terms pushed by the loop of toString, joined with ''
RECURSIVE TermsFrom(_, _, _)
TermsFrom(bs, inputVariables, i) ==
  IF i >= Len(bs) THEN ""
  ELSE (IF bs[i + 1] = ELogicState_False THEN VarName(inputVariables, i) \o "'"
        ELSE IF bs[i + 1] = ELogicState_True THEN VarName(inputVariables, i)
        ELSE "")
       \o TermsFrom(bs, inputVariables, i + 1)

\* the number of terms pushed by the loop of toString
TermCount(bs) == Cardinality({k \in DOMAIN bs : bs[k] # ELogicState_DontCare})

\* mutant of toString: the three tests that return '1' are missing
toString_noConstantOne(loop, inputVariables) == TermsFrom(loop.bits, inputVariables, 0)

toString(loop, inputVariables) ==
  IF Len(loop.bits) = 0 THEN "1"
  ELSE IF \A k \in DOMAIN loop.bits : loop.bits[k] = ELogicState_DontCare THEN "1"
  ELSE IF TermCount(loop.bits) = 0 THEN "1"
  ELSE TermsFrom(loop.bits, inputVariables, 0)

\* table2.getSelectedRows().map(row => row.record).map(record => new RequiredLoop(...))
SelectedLoops(t) ==
  LET sel == getSelectedRows(t)
  IN [i \in DOMAIN sel |-> RequiredLoop(t.rows[sel[i]].record.minterms,
                                        t.rows[sel[i]].record.bits)]

(***************************************************************************)
(* One call solve(minterms, dontcares, numVariables).                      *)
(*   numVariables is <<>> when the argument is not supplied, <<n>> else.   *)
(*   pc: "call", "combine" (the while loop of findPrimeImplicants),        *)
(*       "essential", "petrick" (the while loop of applyPetricksMethod),   *)
(*       "returned", "threw".                                              *)
(***************************************************************************)
VARIABLES pc, minterms, dontcares, numVariables, vars, error,
          currentColumn, allPrimeImplicants, generation,
          table2, essential, residual, result

\* one call of a method of Table1Record or RequiredLoop: the method with its
\* receiver and arguments, and what the call has returned
VARIABLES invoked, returned

\* the fields of NgKarnaughMapComponent, and the state object that a caller
\* of exportState holds until it hands it to importState
VARIABLES inputVariables, outputVariable, mode, cells, rowBits, colBits,
          focusedRow, focusedCol, exported

\* the loops that solveAutomatically has stored, the calls of
\* solveAutomatically that await their solver, and the modeChange and solved
\* events that the last call or continuation has emitted
VARIABLES onesLoops, zerosLoops, pending, modeChange, solved

vars_solver == <<pc, minterms, dontcares, numVariables, vars, error,
                 currentColumn, allPrimeImplicants, generation,
                 table2, essential, residual, result>>

vars_calls == <<invoked, returned>>

vars_map == <<inputVariables, outputVariable, mode, cells, rowBits, colBits,
              focusedRow, focusedCol, exported,
              onesLoops, zerosLoops, pending, modeChange, solved>>

vars_all == <<vars_solver, vars_calls, vars_map>>

\* no method call is modelled
NoCall == [op |-> "none"]

IdleCalls ==
  /\ invoked = NoCall
  /\ returned = NoCall

\* no exported state is held
NoState == [held |-> FALSE]

\* no component is modelled
IdleMap ==
  /\ inputVariables = <<>>
  /\ outputVariable = ""
  /\ mode = 0
  /\ cells = <<>>
  /\ rowBits = 0
  /\ colBits = 0
  /\ focusedRow = 0
  /\ focusedCol = 0
  /\ exported = NoState
  /\ onesLoops = <<>>
  /\ zerosLoops = <<>>
  /\ pending = <<>>
  /\ modeChange = <<>>
  /\ solved = <<>>

NoTable == [rows |-> <<>>, columns |-> <<>>, uncoveredMinterms |-> {}]

\* no call of solve is modelled
IdleSolver ==
  /\ pc = "idle"
  /\ minterms = <<>>
  /\ dontcares = <<>>
  /\ numVariables = <<>>
  /\ vars = Num(0)
  /\ error = <<>>
  /\ currentColumn = Table1Column
  /\ allPrimeImplicants = <<>>
  /\ generation = 0
  /\ table2 = NoTable
  /\ essential = <<>>
  /\ residual = <<>>
  /\ result = <<>>

\* the arguments the model calls solve with: every pair of lists of terms,
\* repeated and negative ones included, of total length at most MaxTotal
Terms == (-1)..MaxTerm

SeqsUpTo(S, n) == UNION {[1..k -> S] : k \in 0..n}

Calls == {call \in SeqsUpTo(Terms, MaxTotal) \X (0..MaxTotal) : call[2] <= Len(call[1])}

NumVariablesArgs == {<<>>} \cup {<<n>> : n \in 0..MaxVars}

Init ==
  /\ pc = "call"
  /\ \E call \in Calls :
       /\ minterms = SubSeq(call[1], 1, call[2])
       /\ dontcares = SubSeq(call[1], call[2] + 1, Len(call[1]))
  /\ numVariables \in NumVariablesArgs
  /\ vars = Num(0)
  /\ error = <<>>
  /\ currentColumn = Table1Column
  /\ allPrimeImplicants = <<>>
  /\ generation = 0
  /\ table2 = NoTable
  /\ essential = <<>>
  /\ residual = <<>>
  /\ result = <<>>
  /\ IdleCalls
  /\ IdleMap

\* mutant of ReturnsAtOnce: the test is made on all the terms
ReturnsAtOnce_noTerms(ms, dcs) == Len(Spread(ms, dcs)) = 0

\* lines 24-26
ReturnsAtOnce(ms, dcs) == Len(ms) = 0

\* mutant of DetectVars: the logarithm is taken of maxTerm
DetectVars_noPlusOne(ms, dcs, numVars) ==
  LET allTerms == Spread(ms, dcs)
      maxTerm == MathMax(allTerms)
      detectedVars == IF maxTerm = 0 THEN Num(1) ELSE CeilLog2(maxTerm)
  IN IF numVars # <<>> THEN Num(numVars[1]) ELSE detectedVars

\* lines 29-33: numVariables ?? detectedVars
DetectVars(ms, dcs, numVars) ==
  LET allTerms == Spread(ms, dcs)
      maxTerm == MathMax(allTerms)
      detectedVars == IF maxTerm = 0 THEN Num(1) ELSE CeilLog2(maxTerm + 1)
  IN IF numVars # <<>> THEN Num(numVars[1]) ELSE detectedVars

maxPossibleTerm(v) == ShiftLeftOne(v) - 1

\* lines 37-43: the index in allTerms of the first term that is rejected, 0 if none
FirstInvalid(allTerms, v) ==
  IF \E i \in DOMAIN allTerms : allTerms[i] > maxPossibleTerm(v)
  THEN CHOOSE i \in DOMAIN allTerms :
         /\ allTerms[i] > maxPossibleTerm(v)
         /\ \A j \in DOMAIN allTerms : allTerms[j] > maxPossibleTerm(v) => i <= j
  ELSE 0

SolveEmpty ==
  /\ pc = "call"
  /\ ReturnsAtOnce(minterms, dontcares)
  /\ pc' = "returned"
  /\ result' = <<>>
  /\ UNCHANGED <<minterms, dontcares, numVariables, vars, error, currentColumn,
                 allPrimeImplicants, generation, table2, essential, residual>>
  /\ UNCHANGED <<vars_calls, vars_map>>

SolveThrow ==
  /\ pc = "call"
  /\ ~ReturnsAtOnce(minterms, dontcares)
  /\ LET v == DetectVars(minterms, dontcares, numVariables)
         allTerms == Spread(minterms, dontcares)
         i == FirstInvalid(allTerms, v)
     IN /\ i # 0
        /\ vars' = v
        /\ error' = <<[term |-> allTerms[i], maxPossibleTerm |-> maxPossibleTerm(v), vars |-> v]>>
  /\ pc' = "threw"
  /\ UNCHANGED <<minterms, dontcares, numVariables, currentColumn,
                 allPrimeImplicants, generation, table2, essential, residual, result>>
  /\ UNCHANGED <<vars_calls, vars_map>>

\* validation passed: findPrimeImplicants builds its first column
SolveStart ==
  /\ pc = "call"
  /\ ~ReturnsAtOnce(minterms, dontcares)
  /\ LET v == DetectVars(minterms, dontcares, numVariables)
     IN /\ FirstInvalid(Spread(minterms, dontcares), v) = 0
        /\ vars' = v
        /\ currentColumn' = FirstColumn(minterms, dontcares, v)
  /\ pc' = "combine"
  /\ UNCHANGED <<minterms, dontcares, numVariables, error,
                 allPrimeImplicants, generation, table2, essential, residual, result>>
  /\ UNCHANGED <<vars_calls, vars_map>>

\* one iteration of "while (!currentColumn.isEmpty())"
CombineStep ==
  /\ pc = "combine"
  /\ ~isEmpty(currentColumn)
  /\ LET c == combineColumn(currentColumn)
     IN /\ allPrimeImplicants' = allPrimeImplicants \o getUnusedRecords(c.column)
        /\ currentColumn' = c.nextColumn
  /\ generation' = generation + 1
  /\ UNCHANGED <<pc, minterms, dontcares, numVariables, vars, error,
                 table2, essential, residual, result>>
  /\ UNCHANGED <<vars_calls, vars_map>>

\* the loop has ended: deduplicate, and build Table 2 unless there is no
\* prime implicant
PrimeImplicantsFound ==
  /\ pc = "combine"
  /\ isEmpty(currentColumn)
  /\ LET primeImplicants == deduplicatePrimeImplicants(allPrimeImplicants)
     IN IF Len(primeImplicants) = 0
        THEN /\ pc' = "returned"
             /\ result' = <<>>
             /\ UNCHANGED table2
        ELSE /\ pc' = "essential"
             /\ table2' = Table2(primeImplicants, minterms)
             /\ UNCHANGED result
  /\ UNCHANGED <<minterms, dontcares, numVariables, vars, error, currentColumn,
                 allPrimeImplicants, generation, essential, residual>>
  /\ UNCHANGED <<vars_calls, vars_map>>

\* table2.findEssentialPrimeImplicants() and the test that follows it
FindEssential ==
  /\ pc = "essential"
  /\ LET e == findEssentialPrimeImplicants(table2)
     IN /\ table2' = e.table
        /\ essential' = e.essential
        /\ IF isFullyCovered(e.table)
           THEN /\ pc' = "returned"
                /\ result' = SelectedLoops(e.table)
           ELSE /\ pc' = "petrick"
                /\ UNCHANGED result
  /\ UNCHANGED <<minterms, dontcares, numVariables, vars, error, currentColumn,
                 allPrimeImplicants, generation, residual>>
  /\ UNCHANGED <<vars_calls, vars_map>>

\* applyPetricksMethod: its guards on entry, then one iteration of the while
\* loop per step; residual lists the rows passed to selectRow
PetrickStep ==
  /\ pc = "petrick"
  /\ LET candidates == Candidates(table2)
     IN IF (residual = <<>> /\ PetrickReturnsAtOnce(table2))
           \/ isFullyCovered(table2)
           \/ Len(candidates) = 0
        THEN /\ pc' = "returned"
             /\ result' = SelectedLoops(table2)
             /\ UNCHANGED <<table2, residual>>
        ELSE /\ table2' = selectRow(table2, candidates[1])
             /\ residual' = Append(residual, candidates[1])
             /\ UNCHANGED <<pc, result>>
  /\ UNCHANGED <<minterms, dontcares, numVariables, vars, error, currentColumn,
                 allPrimeImplicants, generation, essential>>
  /\ UNCHANGED <<vars_calls, vars_map>>

Next ==
  \/ SolveEmpty
  \/ SolveThrow
  \/ SolveStart
  \/ CombineStep
  \/ PrimeImplicantsFound
  \/ FindEssential
  \/ PetrickStep

Spec == Init /\ [][Next]_vars_solver

(***************************************************************************)
(* Vocabulary of the properties.                                           *)
(***************************************************************************)
Requested == SeqToSet(minterms)

\* the elements of a set of integers in ascending order
RECURSIVE AscendingSeq(_)
AscendingSeq(S) ==
  IF S = {} THEN <<>>
  ELSE LET m == CHOOSE x \in S : \A y \in S : x <= y
       IN <<m>> \o AscendingSeq(S \ {m})

CareSet == SeqToSet(minterms) \cup SeqToSet(dontcares)

Finished == pc = "returned"

\* every term of the call lies in [0, 2^vars - 1]
InRange ==
  /\ vars.finite
  /\ vars.n >= 0
  /\ \A t \in CareSet : 0 <= t /\ t <= Pow2(vars.n) - 1

\* the values of [0, 2^n - 1] that a bit pattern of n positions matches
CubeValues(bs) ==
  {m \in 0..(Pow2(Len(bs)) - 1) :
     \A k \in DOMAIN bs :
       bs[k] = ELogicState_DontCare
         \/ bs[k] = (IF BitOf(m, Len(bs) - k) = 1 THEN ELogicState_True ELSE ELogicState_False)}

LoopUnion == UNION {SeqToSet(result[i].minterms) : i \in DOMAIN result}

DontCareCount(bs) == Cardinality({k \in DOMAIN bs : bs[k] = ELogicState_DontCare})

(***************************************************************************)
(* Calls solve(minterms, dontcares) whose lists are ascending and share no *)
(* term, as a caller that reads them off a truth table passes them, with   *)
(* terms up to MaxCoverTerm: the inputs on which the residual step has     *)
(* rows of different sizes to choose from.  The variable count is the      *)
(* detected one or MaxVars, which holds every term up to MaxCoverTerm, so  *)
(* the validation never throws.                                            *)
(***************************************************************************)
InitCover ==
  /\ pc = "call"
  /\ \E care \in SUBSET (0..MaxCoverTerm) :
       /\ Cardinality(care) <= MaxCover
       /\ \E on \in SUBSET care :
            /\ minterms = AscendingSeq(on)
            /\ dontcares = AscendingSeq(care \ on)
  /\ numVariables \in {<<>>, <<MaxVars>>}
  /\ vars = Num(0)
  /\ error = <<>>
  /\ currentColumn = Table1Column
  /\ allPrimeImplicants = <<>>
  /\ generation = 0
  /\ table2 = NoTable
  /\ essential = <<>>
  /\ residual = <<>>
  /\ result = <<>>
  /\ IdleCalls
  /\ IdleMap

NextCover ==
  \/ SolveEmpty
  \/ SolveStart
  \/ CombineStep
  \/ PrimeImplicantsFound
  \/ FindEssential
  \/ PetrickStep

SpecCover == InitCover /\ [][NextCover]_vars_solver

\* C1: when solve returns for a non-empty minterm list whose terms are all in
\* range, every requested minterm is in the minterms of some returned loop and
\* no required minterm is left uncovered in the coverage table.
C1_EveryMintermCovered ==
  (Finished /\ minterms # <<>> /\ InRange)
    => /\ \A m \in Requested : \E i \in DOMAIN result : m \in SeqToSet(result[i].minterms)
       /\ table2.uncoveredMinterms = {}

\* C1 witness: the residual step ran and selected a row.
C1_Witness ==
  /\ Finished
  /\ InRange
  /\ residual # <<>>
  /\ Len(result) >= 2
  /\ \A m \in Requested : \E i \in DOMAIN result : m \in SeqToSet(result[i].minterms)

\* C2: every returned loop lists only requested minterms and don't-cares, and
\* for in-range calls its bit pattern matches only such values, so the sum of
\* products is 0 on every input that is neither.
C2_LoopsWithinCareSet ==
  Finished
    => \A i \in DOMAIN result :
         /\ SeqToSet(result[i].minterms) \subseteq CareSet
         /\ InRange => CubeValues(result[i].bits) \subseteq CareSet

\* C2 witness: a returned loop that folds a don't-care in, next to values of
\* the input space that are neither minterm nor don't-care.
C2_Witness ==
  /\ Finished
  /\ InRange
  /\ \E i \in DOMAIN result : SeqToSet(result[i].minterms) \cap (CareSet \ Requested) # {}
  /\ \E m \in 0..(Pow2(vars.n) - 1) : m \notin CareSet

\* C3 as claimed: with complete coverage, the union of the loops' minterms
\* equals the requested minterm set, also when don't-cares are supplied.
C3_UnionEqualsRequested ==
  (Finished /\ minterms # <<>> /\ InRange /\ table2.uncoveredMinterms = {})
    => LoopUnion = Requested

\* C3 amended: the union contains the requested minterm set and adds only
\* don't-cares to it; it equals the requested set when no don't-care is given.
C3_UnionBetweenRequestedAndCareSet ==
  (Finished /\ minterms # <<>> /\ InRange /\ table2.uncoveredMinterms = {})
    => /\ Requested \subseteq LoopUnion
       /\ LoopUnion \subseteq CareSet
       /\ LoopUnion \ SeqToSet(dontcares) = Requested \ SeqToSet(dontcares)
       /\ dontcares = <<>> => LoopUnion = Requested

\* C3 witness: a complete cover whose union holds a don't-care that was not
\* requested.
C3_Witness ==
  /\ Finished
  /\ minterms # <<>>
  /\ InRange
  /\ table2.uncoveredMinterms = {}
  /\ Requested \subseteq LoopUnion
  /\ LoopUnion # Requested

\* C4 as claimed: a call with a non-empty minterm list raises exactly when some
\* term is negative or larger than the capacity 2^vars - 1, the failure names
\* the first such term and the capacity, and no record has been built.
C4_RaisesIffOutOfRange ==
  (pc # "call" /\ minterms # <<>>)
    => /\ (pc = "threw") <=> (\E t \in CareSet : t < 0 \/ t > maxPossibleTerm(vars))
       /\ pc = "threw"
            => /\ error[1].term \in CareSet
               /\ error[1].term < 0 \/ error[1].term > maxPossibleTerm(vars)
               /\ error[1].maxPossibleTerm = maxPossibleTerm(vars)
               /\ currentColumn = Table1Column
               /\ allPrimeImplicants = <<>>

\* C5: a call with an empty minterm list returns the empty list, whatever the
\* don't-cares and the variable count, raises nothing and builds no record,
\* column or table.
C5_EmptyMintermsReturnEmpty ==
  (pc # "call" /\ minterms = <<>>)
    => /\ Finished
       /\ result = <<>>
       /\ error = <<>>
       /\ currentColumn = Table1Column
       /\ allPrimeImplicants = <<>>
       /\ generation = 0
       /\ table2 = NoTable

\* C5 witness: such a call returned although a don't-care exceeds the capacity
\* of the supplied variable count.
C5_Witness ==
  /\ Finished
  /\ minterms = <<>>
  /\ numVariables # <<>>
  /\ \E t \in SeqToSet(dontcares) : t > Pow2(numVariables[1]) - 1
  /\ result = <<>>

\* the smallest v >= 1 with max <= 2^v - 1
LeastVars(max) ==
  CHOOSE v \in 1..(max + 1) :
    /\ max <= Pow2(v) - 1
    /\ \A w \in 1..(max + 1) : max <= Pow2(w) - 1 => v <= w

Patterns(n) == [1..n -> {ELogicState_False, ELogicState_True, ELogicState_DontCare}]

ABC == <<"A", "B", "C">>

\* C7: with no don't-cares and a supplied variable count v, when the distinct
\* minterms are exactly the values matching one bit pattern over v variables,
\* solve returns exactly one loop, with these minterms and this pattern; the
\* loops of the documented scenarios render "B", "AB'", "1" and "A'".
C7_SubcubeGivesOneLoop ==
  (Finished /\ minterms # <<>> /\ dontcares = <<>> /\ numVariables # <<>>)
    => /\ \A p \in Patterns(numVariables[1]) :
            CubeValues(p) = Requested
              => result = <<[minterms |-> AscendingSeq(Requested), bits |-> p]>>
       /\ (numVariables = <<2>> /\ Requested = {1, 3}) => toString(result[1], ABC) = "B"
       /\ (numVariables = <<2>> /\ Requested = {2}) => toString(result[1], ABC) = "AB'"
       /\ (numVariables = <<2>> /\ Requested = {0, 1, 2, 3}) => toString(result[1], ABC) = "1"
       /\ (numVariables = <<3>> /\ Requested = {0, 1, 2, 3}) => toString(result[1], ABC) = "A'"

\* C7 witness: four distinct minterms forming a subcube over MaxVars variables,
\* returned as one loop.
C7_Witness ==
  /\ Finished
  /\ dontcares = <<>>
  /\ numVariables = <<MaxVars>>
  /\ Cardinality(Requested) = 4
  /\ \E p \in Patterns(MaxVars) : CubeValues(p) = Requested /\ result[1].bits = p
  /\ Len(result) = 1
  /\ result[1].minterms = AscendingSeq(Requested)

\* the loops of the given rows, in the given order
LoopsOfRows(rs) ==
  [i \in DOMAIN rs |-> RequiredLoop(table2.rows[rs[i]].record.minterms,
                                    table2.rows[rs[i]].record.bits)]

\* C8 as claimed: the returned list is in selection order, the essential rows
\* in the order findEssentialPrimeImplicants selected them, then the residual
\* rows in the order the greedy step selected them.
C8_SelectionOrder ==
  (Finished /\ minterms # <<>> /\ InRange) => result = LoopsOfRows(essential \o residual)

\* C8 amended: the returned list holds exactly the selected rows (essential or
\* residual), each once, in the order of the rows of the coverage table, which
\* is the order of the deduplicated prime-implicant list.
C8_RowOrder ==
  (Finished /\ minterms # <<>> /\ InRange)
    => /\ result = LoopsOfRows(AscendingSeq(SeqToSet(essential \o residual)))
       /\ Len(essential \o residual) = Cardinality(SeqToSet(essential \o residual))
       /\ \A r \in DOMAIN table2.rows :
            /\ table2.rows[r].isSelected <=> r \in SeqToSet(essential \o residual)
            /\ table2.rows[r].record = deduplicatePrimeImplicants(allPrimeImplicants)[r]

\* C8 witness: a residual row stands before an essential row in the table, so
\* the returned order is not the selection order.
C8_Witness ==
  /\ Finished
  /\ InRange
  /\ essential # <<>>
  /\ residual # <<>>
  /\ \E i \in DOMAIN residual : \E j \in DOMAIN essential : residual[i] < essential[j]
  /\ result = LoopsOfRows(AscendingSeq(SeqToSet(essential \o residual)))
  /\ result # LoopsOfRows(essential \o residual)

\* no two elements of a sequence of records have the same minterm set
DistinctMintermSets(records) ==
  \A i, j \in DOMAIN records :
    i # j => SeqToSet(records[i].minterms) # SeqToSet(records[j].minterms)

\* C9: in every state no generation holds two records with the same minterm
\* set, and neither does the deduplicated output of the extractor (the rows of
\* the coverage table), whatever the lists passed, overlapping or repeating.
C9_NoDuplicateRecords ==
  /\ DistinctMintermSets(getAllRecords(currentColumn))
  /\ DistinctMintermSets([r \in DOMAIN table2.rows |-> table2.rows[r].record])
  /\ pc = "combine" => DistinctMintermSets(deduplicatePrimeImplicants(allPrimeImplicants))

\* C9 witness: the second generation holds a record over four minterms, which
\* the combination pass produces from two different pairs of records.
C9_Witness ==
  /\ pc = "combine"
  /\ generation = 2
  /\ \E r \in SeqToSet(getAllRecords(currentColumn)) : Len(r.minterms) = 4

\* C10: generation k of the combination loop holds only records with exactly
\* k DontCare positions, the loop processes at most vars + 1 non-empty
\* generations, and generation vars + 1 is empty.
C10_GenerationsBounded ==
  (pc # "call" /\ pc # "threw")
    => /\ \A r \in SeqToSet(getAllRecords(currentColumn)) : DontCareCount(r.bits) = generation
       /\ generation <= BitCount(vars) + 1
       /\ generation = BitCount(vars) + 1 => isEmpty(currentColumn)
       /\ pc # "combine" => isEmpty(currentColumn)

\* C10 witness: the loop has processed vars + 1 non-empty generations (the
\* whole input space over at least two variables) and the next one is empty.
C10_Witness ==
  /\ pc = "combine"
  /\ vars.finite
  /\ vars.n >= 2
  /\ generation = vars.n + 1
  /\ isEmpty(currentColumn)

(***************************************************************************)
(* Calls of the methods of Table1Record and RequiredLoop on their own:     *)
(* the receiver and the arguments are chosen in InitCalls, and each action *)
(* is one call.                                                            *)
(***************************************************************************)
LogicStates == {ELogicState_False, ELogicState_True, ELogicState_DontCare}

\* the variable names handed to toString: an empty name and a name that is
\* a digit are among them
VariableNames == {"A", "B", "", "1"}

\* loop.toString(inputVariables); toString reads the bits of the loop only
ToStringCalls ==
  {[op |-> "toString", loop |-> RequiredLoop(<<>>, bs), inputVariables |-> ns] :
     bs \in SeqsUpTo(LogicStates, MaxVars), ns \in SeqsUpTo(VariableNames, MaxVars)}

\* Table1Record.fromMinterm(minterm, numVariables)
FromMintermCalls ==
  {[op |-> "fromMinterm", minterm |-> m, numVariables |-> v] :
     m \in (-1)..Pow2(MaxVars), v \in 0..MaxVars}

\* the minterms of the records handed to canCombineWith
RecordTerms == 0..1

\* new Table1Record(minterms, bits)
Records ==
  {Table1Record(ms, bs) :
     ms \in SeqsUpTo(RecordTerms, MaxMinterms), bs \in SeqsUpTo(LogicStates, MaxBits)}

\* a.canCombineWith(b), followed by a.combineWith(b, position) when a
\* position is returned
CanCombineWithCalls ==
  {[op |-> "canCombineWith", this |-> a, other |-> b] : a \in Records, b \in Records}

InitCalls ==
  /\ invoked \in ToStringCalls \cup FromMintermCalls \cup CanCombineWithCalls
  /\ returned = NoCall
  /\ IdleSolver
  /\ IdleMap

CallToString ==
  /\ invoked.op = "toString"
  /\ returned = NoCall
  /\ returned' = [op |-> "toString", value |-> toString(invoked.loop, invoked.inputVariables)]
  /\ UNCHANGED <<invoked, vars_solver, vars_map>>

\* fromMinterm has no statement that throws: every call returns a record
CallFromMinterm ==
  /\ invoked.op = "fromMinterm"
  /\ returned = NoCall
  /\ returned' = [op |-> "fromMinterm",
                  value |-> fromMinterm(invoked.minterm, Num(invoked.numVariables))]
  /\ UNCHANGED <<invoked, vars_solver, vars_map>>

CallCanCombineWith ==
  /\ invoked.op = "canCombineWith"
  /\ returned = NoCall
  /\ returned' = [op |-> "canCombineWith",
                  value |-> canCombineWith(invoked.this, invoked.other)]
  /\ UNCHANGED <<invoked, vars_solver, vars_map>>

\* combineWith copies the bits and the minterms: the receiver and the
\* argument keep their fields
CallCombineWith ==
  /\ returned.op = "canCombineWith"
  /\ returned.value # -1
  /\ returned' = [op |-> "combineWith", position |-> returned.value,
                  value |-> combineWith(invoked.this, invoked.other, returned.value)]
  /\ UNCHANGED <<invoked, vars_solver, vars_map>>

NextCalls ==
  \/ CallToString
  \/ CallFromMinterm
  \/ CallCanCombineWith
  \/ CallCombineWith

SpecCalls == InitCalls /\ [][NextCalls]_vars_all

(***************************************************************************)
(* Vocabulary of the properties of the method calls.                       *)
(***************************************************************************)
Rendered == invoked.op = "toString" /\ returned.op = "toString"

\* the pattern is empty or DontCare at every position
AllDontCare(bs) == \A k \in DOMAIN bs : bs[k] = ELogicState_DontCare

Cared(bs) == {k \in DOMAIN bs : bs[k] # ELogicState_DontCare}

Placeholder(k) == "x" \o NumberToString(k - 1)

\* the name of position k as the list gives it, a placeholder past its end
GivenNames(bs, ns) ==
  [k \in DOMAIN bs |-> IF k <= Len(ns) THEN ns[k] ELSE Placeholder(k)]

\* the same, with a placeholder also for a name that is the empty string
NonEmptyNames(bs, ns) ==
  [k \in DOMAIN bs |-> IF k <= Len(ns) /\ ns[k] # "" THEN ns[k] ELSE Placeholder(k)]

Literal(b, name) ==
  IF b = ELogicState_True THEN name
  ELSE IF b = ELogicState_False THEN name \o "'"
  ELSE ""

\* the literals of positions k.. in order, without separator
RECURSIVE Concatenated(_, _, _)
Concatenated(bs, names, k) ==
  IF k > Len(bs) THEN ""
  ELSE Literal(bs[k], names[k]) \o Concatenated(bs, names, k + 1)

\* C11 as stated: toString returns "1" exactly when the bit pattern is empty
\* or every position is DontCare, whatever the variable names.
C11_OneExactlyWhenAllDontCare ==
  Rendered => (returned.value = "1" <=> AllDontCare(invoked.loop.bits))

\* C11: toString returns "1" when the bit pattern is empty or every position
\* is DontCare; for every other pattern the result is not empty, and it is
\* "1" only when the single position that is not DontCare is True and its
\* variable is itself named "1".
C11_OneWhenAllDontCare ==
  Rendered =>
    LET bs == invoked.loop.bits
        ns == invoked.inputVariables
    IN /\ AllDontCare(bs) => returned.value = "1"
       /\ ~AllDontCare(bs) =>
            /\ Len(returned.value) >= 1
            /\ returned.value = "1" =>
                 \E k \in Cared(bs) :
                   /\ Cared(bs) = {k}
                   /\ bs[k] = ELogicState_True
                   /\ k <= Len(ns)
                   /\ ns[k] = "1"

C11_Witness ==
  /\ Rendered
  /\ invoked.loop.bits = <<ELogicState_DontCare, ELogicState_DontCare>>
  /\ invoked.inputVariables = <<"A", "B">>
  /\ returned.value = "1"

\* C12 as stated: for a pattern that is not all DontCare the result is the
\* concatenation in position order of the literals of the positions that are
\* not DontCare, each built on the name the list gives for the position and
\* on a placeholder only past the end of the list.
C12_LiteralsOfGivenNames ==
  (Rendered /\ ~AllDontCare(invoked.loop.bits)) =>
    returned.value
      = Concatenated(invoked.loop.bits,
                     GivenNames(invoked.loop.bits, invoked.inputVariables), 1)

\* C12: for a pattern that is not all DontCare the result is the
\* concatenation in position order, without separator, of one literal per
\* position that is not DontCare (the name for True, the name followed by an
\* apostrophe for False), where the name of position i is the one the list
\* gives, or the placeholder "x" followed by i when the list is too short or
\* gives the empty string.
C12_LiteralsOfNonEmptyNames ==
  (Rendered /\ ~AllDontCare(invoked.loop.bits)) =>
    returned.value
      = Concatenated(invoked.loop.bits,
                     NonEmptyNames(invoked.loop.bits, invoked.inputVariables), 1)

C12_Witness ==
  /\ Rendered
  /\ invoked.loop.bits = <<ELogicState_False, ELogicState_DontCare, ELogicState_True>>
  /\ invoked.inputVariables = <<"A">>
  /\ returned.value = "A'x2"

\* the value of a pattern of False and True read as a binary number, the
\* first position being the most significant
RECURSIVE BinaryValue(_)
BinaryValue(bs) ==
  IF bs = <<>> THEN 0
  ELSE 2 * BinaryValue(SubSeq(bs, 1, Len(bs) - 1))
       + (IF bs[Len(bs)] = ELogicState_True THEN 1 ELSE 0)

FromMintermReturned == invoked.op = "fromMinterm" /\ returned # NoCall

\* C13 as stated: fromMinterm(value, variableCount) produces no record when
\* value is negative or larger than 2^variableCount - 1.
C13_FailsWhenOutOfRange ==
  (/\ FromMintermReturned
   /\ \/ invoked.minterm < 0
      \/ invoked.minterm > Pow2(invoked.numVariables) - 1)
    => returned.op = "threw"

\* C14: for 0 <= m <= 2^v - 1, fromMinterm(m, v) is a record with minterms
\* [m] and v bits, each False or True, bit i (0-based) being bit v-1-i of m,
\* so that the bits read as a binary number, first bit most significant,
\* give m.
C14_BitsOfMinterm ==
  (/\ FromMintermReturned
   /\ 0 <= invoked.minterm
   /\ invoked.minterm <= Pow2(invoked.numVariables) - 1)
    => LET m == invoked.minterm
           v == invoked.numVariables
           r == returned.value
       IN /\ returned.op = "fromMinterm"
          /\ r.minterms = <<m>>
          /\ Len(r.bits) = v
          /\ \A i \in 0..(v - 1) :
               r.bits[i + 1] = (IF (m \div (2 ^ (v - 1 - i))) % 2 = 1
                                THEN ELogicState_True ELSE ELogicState_False)
          /\ BinaryValue(r.bits) = m

C14_Witness ==
  /\ FromMintermReturned
  /\ invoked.minterm = 6
  /\ invoked.numVariables = 3
  /\ returned.value.bits = <<ELogicState_True, ELogicState_True, ELogicState_False>>

\* C15: for all records a and b, of equal or unequal lengths and whatever
\* their bits, a.canCombineWith(b) returns what b.canCombineWith(a) returns:
\* -1 for both or the same position for both.
C15_CanCombineWithSymmetric ==
  (invoked.op = "canCombineWith" /\ returned.op = "canCombineWith")
    => returned.value = canCombineWith(invoked.other, invoked.this)

C15_Witness ==
  /\ invoked.op = "canCombineWith"
  /\ returned.op = "canCombineWith"
  /\ invoked.this.bits = <<ELogicState_DontCare, ELogicState_False>>
  /\ invoked.other.bits = <<ELogicState_DontCare, ELogicState_True>>
  /\ returned.value = 1

\* C16: when a.canCombineWith(b) has returned a position pos, the call
\* a.combineWith(b, pos) returns a record whose minterms are the ascending
\* list without repetition of the minterms of a and of b, and whose bits are
\* those of a, and of b, at every position but pos, where the bit is
\* DontCare; the call leaves a and b as they were.
C16_CombineWithUnion ==
  [][CallCombineWith =>
       LET a == invoked.this
           b == invoked.other
           pos == returned.value
           r == returned'.value
       IN /\ r.minterms = AscendingSeq(SeqToSet(a.minterms) \cup SeqToSet(b.minterms))
          /\ Len(r.bits) = Len(a.bits)
          /\ \A k \in DOMAIN r.bits :
               IF k = pos + 1
               THEN r.bits[k] = ELogicState_DontCare
               ELSE r.bits[k] = a.bits[k] /\ r.bits[k] = b.bits[k]
          /\ invoked'.this = a
          /\ invoked'.other = b]_vars_all

C16_Witness ==
  /\ returned.op = "combineWith"
  /\ invoked.this.minterms = <<1>>
  /\ invoked.other.minterms = <<0>>
  /\ returned.value.minterms = <<0, 1>>
  /\ returned.position = 0
  /\ returned.value.bits = <<ELogicState_DontCare, ELogicState_True>>

(***************************************************************************)
(* ECellValue, EEditMode                                                   *)
(***************************************************************************)
ECellValue_Undefined == -1
ECellValue_Zero == 0
ECellValue_One == 1
ECellValue_DontCare == 2

CellValues == {ECellValue_Undefined, ECellValue_Zero, ECellValue_One, ECellValue_DontCare}

EEditMode_Edit == 0
EEditMode_Solve == 1

(***************************************************************************)
(* GrayCodeHelper.  The bitwise operators are those of JavaScript on       *)
(* non-negative operands below 2^31.                                       *)
(***************************************************************************)
RECURSIVE BitXor(_, _)
BitXor(a, b) ==
  IF a = 0 /\ b = 0 THEN 0
  ELSE ((a + b) % 2) + 2 * BitXor(a \div 2, b \div 2)

RECURSIVE BitOr(_, _)
BitOr(a, b) ==
  IF a = 0 /\ b = 0 THEN 0
  ELSE (IF a % 2 = 1 \/ b % 2 = 1 THEN 1 ELSE 0) + 2 * BitOr(a \div 2, b \div 2)

RECURSIVE BitAnd(_, _)
BitAnd(a, b) ==
  IF a = 0 \/ b = 0 THEN 0
  ELSE (IF a % 2 = 1 /\ b % 2 = 1 THEN 1 ELSE 0) + 2 * BitAnd(a \div 2, b \div 2)

ShiftRight(a, n) == a \div Pow2(n)

ShiftLeft(a, n) == a * Pow2(n)

binaryToGray(binary) == BitXor(binary, ShiftRight(binary, 1))

\* while (mask !== 0) { binary ^= mask; mask >>= 1; }
RECURSIVE grayToBinaryLoop(_, _)
grayToBinaryLoop(binary, mask) ==
  IF mask = 0 THEN binary
  ELSE grayToBinaryLoop(BitXor(binary, mask), ShiftRight(mask, 1))

grayToBinary(gray) == grayToBinaryLoop(gray, ShiftRight(gray, 1))

gridPositionToMinterm(row, col, rBits, cBits) ==
  LET rowGray == binaryToGray(row)
      colGray == binaryToGray(col)
  IN BitOr(ShiftLeft(rowGray, cBits), colGray)

\* mutant of mintermToGridPosition: the Gray codes are used as grid indices
mintermToGridPosition_noGrayToBinary(minterm, rBits, cBits) ==
  LET colMask == ShiftLeft(1, cBits) - 1
  IN [row |-> ShiftRight(minterm, cBits), col |-> BitAnd(minterm, colMask)]

mintermToGridPosition(minterm, rBits, cBits) ==
  LET colMask == ShiftLeft(1, cBits) - 1
      colGray == BitAnd(minterm, colMask)
      rowGray == ShiftRight(minterm, cBits)
  IN [row |-> grayToBinary(rowGray), col |-> grayToBinary(colGray)]

\* Math.ceil(numVariables / 2) and Math.floor(numVariables / 2)
calculateGridDimensions(numVars) ==
  LET cBits == (numVars + 1) \div 2
      rBits == numVars \div 2
  IN [rowBits |-> rBits, colBits |-> cBits,
      rows |-> ShiftLeft(1, rBits), cols |-> ShiftLeft(1, cBits)]

(***************************************************************************)
(* NgKarnaughMapComponent.  cells is the array of rows of cell objects;    *)
(* the row and column fields of a cell are 0-based as in the code, the     *)
(* indices of the sequences are 1-based.  The arrays that only label the   *)
(* grid (rowCodes, colCodes, rowVars, colVars) are left out.               *)
(***************************************************************************)
\* the cells pushed by the two loops of initializeGrid
GridCells(numVars) ==
  LET dims == calculateGridDimensions(numVars)
  IN [r \in 1..dims.rows |->
       [c \in 1..dims.cols |->
         [row |-> r - 1,
          column |-> c - 1,
          minterm |-> gridPositionToMinterm(r - 1, c - 1, dims.rowBits, dims.colBits),
          value |-> ECellValue_Undefined,
          isSelected |-> FALSE]]]

\* initializeGrid() once inputVariables holds names
initializeGrid(names) ==
  LET dims == calculateGridDimensions(Len(names))
  IN /\ rowBits' = dims.rowBits
     /\ colBits' = dims.colBits
     /\ cells' = GridCells(Len(names))
     /\ focusedRow' = 0
     /\ focusedCol' = 0
     /\ onesLoops' = <<>>
     /\ zerosLoops' = <<>>

\* this.cells[row] && this.cells[row][col]
HasCell(grid, row, col) ==
  /\ row + 1 \in DOMAIN grid
  /\ col + 1 \in DOMAIN grid[row + 1]

\* what getValue(minterm) returns on a grid
ValueAt(grid, rBits, cBits, minterm) ==
  LET pos == mintermToGridPosition(minterm, rBits, cBits)
  IN IF HasCell(grid, pos.row, pos.col)
     THEN grid[pos.row + 1][pos.col + 1].value
     ELSE ECellValue_Undefined

getValue(minterm) == ValueAt(cells, rowBits, colBits, minterm)

\* the grid that setValue(minterm, value) leaves
WithValue(grid, rBits, cBits, minterm, value) ==
  LET pos == mintermToGridPosition(minterm, rBits, cBits)
  IN IF HasCell(grid, pos.row, pos.col)
     THEN [grid EXCEPT ![pos.row + 1][pos.col + 1].value = value]
     ELSE grid

setValue(minterm, value) ==
  /\ cells' = WithValue(cells, rowBits, colBits, minterm, value)
  /\ UNCHANGED <<inputVariables, outputVariable, mode, rowBits, colBits,
                 focusedRow, focusedCol, onesLoops, zerosLoops>>

\* mutant of toggleCellValue: One goes back to Undefined
toggleCellValue_withoutDontCare(value) ==
  IF value = ECellValue_Undefined THEN ECellValue_Zero
  ELSE IF value = ECellValue_Zero THEN ECellValue_One
  ELSE IF value = ECellValue_One THEN ECellValue_Undefined
  ELSE IF value = ECellValue_DontCare THEN ECellValue_Undefined
  ELSE value

\* the switch of toggleCellValue
toggleCellValue(value) ==
  IF value = ECellValue_Undefined THEN ECellValue_Zero
  ELSE IF value = ECellValue_Zero THEN ECellValue_One
  ELSE IF value = ECellValue_One THEN ECellValue_DontCare
  ELSE IF value = ECellValue_DontCare THEN ECellValue_Undefined
  ELSE value

toggleCellSelection(isSelected) == ~isSelected

\* the grid that onCellClick(cells[row][col]) leaves
Clicked(grid, m, row, col) ==
  IF m = EEditMode_Edit
  THEN [grid EXCEPT ![row + 1][col + 1].value = toggleCellValue(@)]
  ELSE [grid EXCEPT ![row + 1][col + 1].isSelected = toggleCellSelection(@)]

\* onCellClick(cell) with cell = cells[row][col]
onCellClick(row, col) ==
  /\ HasCell(cells, row, col)
  /\ cells' = Clicked(cells, mode, row, col)
  /\ focusedRow' = cells[row + 1][col + 1].row
  /\ focusedCol' = cells[row + 1][col + 1].column
  /\ UNCHANGED <<inputVariables, outputVariable, mode, rowBits, colBits,
                 onesLoops, zerosLoops>>

\* the grid that setCellValueDirect(value) leaves
DirectValue(grid, m, row, col, value) ==
  IF m = EEditMode_Edit
  THEN [grid EXCEPT ![row + 1][col + 1].value = value]
  ELSE grid

Keys == {"ArrowUp", "ArrowDown", "ArrowLeft", "ArrowRight", " ", "Enter",
         "0", "1", "x", "X", "-", "Delete", "Backspace", "a"}

\* onKeyDown(event) with event.key = key
onKeyDown(key) ==
  LET rows == Len(cells)
      cols == IF Len(cells) > 0 THEN Len(cells[1]) ELSE 0
  IN /\ focusedRow' =
          IF key = "ArrowUp" THEN (focusedRow - 1 + rows) % rows
          ELSE IF key = "ArrowDown" THEN (focusedRow + 1) % rows
          ELSE focusedRow
     /\ focusedCol' =
          IF key = "ArrowLeft" THEN (focusedCol - 1 + cols) % cols
          ELSE IF key = "ArrowRight" THEN (focusedCol + 1) % cols
          ELSE focusedCol
     /\ cells' =
          IF key \in {" ", "Enter"} THEN Clicked(cells, mode, focusedRow, focusedCol)
          ELSE IF key = "0"
            THEN DirectValue(cells, mode, focusedRow, focusedCol, ECellValue_Zero)
          ELSE IF key = "1"
            THEN DirectValue(cells, mode, focusedRow, focusedCol, ECellValue_One)
          ELSE IF key \in {"x", "X", "-"}
            THEN DirectValue(cells, mode, focusedRow, focusedCol, ECellValue_DontCare)
          ELSE IF key \in {"Delete", "Backspace"}
            THEN DirectValue(cells, mode, focusedRow, focusedCol, ECellValue_Undefined)
          ELSE cells
     /\ UNCHANGED <<inputVariables, outputVariable, mode, rowBits, colBits,
                    onesLoops, zerosLoops>>

clearSelection ==
  /\ cells' = [r \in DOMAIN cells |->
                [c \in DOMAIN cells[r] |-> [cells[r][c] EXCEPT !.isSelected = FALSE]]]
  /\ UNCHANGED <<inputVariables, outputVariable, mode, rowBits, colBits,
                 focusedRow, focusedCol, onesLoops, zerosLoops>>

reset ==
  /\ cells' = [r \in DOMAIN cells |->
                [c \in DOMAIN cells[r] |->
                  [cells[r][c] EXCEPT !.value = ECellValue_Undefined,
                                      !.isSelected = FALSE]]]
  /\ onesLoops' = <<>>
  /\ zerosLoops' = <<>>
  /\ UNCHANGED <<inputVariables, outputVariable, mode, rowBits, colBits,
                 focusedRow, focusedCol>>

\* mutant of setMode: the selections are kept when the mode becomes Edit
setMode_withoutClearSelection(m) ==
  /\ IF mode # m
     THEN /\ mode' = m
          /\ modeChange' = <<m>>
          /\ UNCHANGED cells
     ELSE /\ modeChange' = <<>>
          /\ UNCHANGED <<mode, cells>>
  /\ UNCHANGED <<inputVariables, outputVariable, rowBits, colBits,
                 focusedRow, focusedCol, onesLoops, zerosLoops>>

\* setMode(mode) with mode = m; modeChange holds what the call emits on modeChange
setMode(m) ==
  /\ IF mode # m
     THEN /\ mode' = m
          /\ modeChange' = <<m>>
          /\ IF m = EEditMode_Edit
             THEN cells' = [r \in DOMAIN cells |->
                             [c \in DOMAIN cells[r] |->
                               [cells[r][c] EXCEPT !.isSelected = FALSE]]]
             ELSE UNCHANGED cells
     ELSE /\ modeChange' = <<>>
          /\ UNCHANGED <<mode, cells>>
  /\ UNCHANGED <<inputVariables, outputVariable, rowBits, colBits,
                 focusedRow, focusedCol, onesLoops, zerosLoops>>

\* the cells in the order of "for (const row of this.cells) for (const cell of row)"
RECURSIVE CellsInOrder(_, _)
CellsInOrder(grid, r) ==
  IF r > Len(grid) THEN <<>> ELSE grid[r] \o CellsInOrder(grid, r + 1)

\* cellValues[key] = value on an object: the key is added or overwritten
WithKey(object, key, value) ==
  [k \in DOMAIN object \cup {key} |-> IF k = key THEN value ELSE object[k]]

\* mutant of CellValuesFrom: the value DontCare is not written
RECURSIVE CellValuesFrom_withoutDontCare(_, _, _)
CellValuesFrom_withoutDontCare(list, i, object) ==
  IF i > Len(list) THEN object
  ELSE CellValuesFrom_withoutDontCare(list, i + 1,
         IF list[i].value # ECellValue_Undefined /\ list[i].value # ECellValue_DontCare
         THEN WithKey(object, NumberToString(list[i].minterm), list[i].value)
         ELSE object)

\* the loop of exportState; the keys of an object are strings
RECURSIVE CellValuesFrom(_, _, _)
CellValuesFrom(list, i, object) ==
  IF i > Len(list) THEN object
  ELSE CellValuesFrom(list, i + 1,
         IF list[i].value # ECellValue_Undefined
         THEN WithKey(object, NumberToString(list[i].minterm), list[i].value)
         ELSE object)

\* the object returned by exportState()
exportState ==
  [held |-> TRUE,
   inputVariables |-> inputVariables,
   outputVariable |-> outputVariable,
   cellValues |-> CellValuesFrom(CellsInOrder(cells, 1), 1, <<>>)]

\* parseInt(str, 10) of the decimal writing of an index
parseInt(str) == CHOOSE n \in 0..Pow2(MaxGridVars) : NumberToString(n) = str

\* Object.entries(cellValues): integer-like keys come in ascending order
ObjectEntries(object) ==
  LET keys == AscendingSeq({parseInt(k) : k \in DOMAIN object})
  IN [i \in DOMAIN keys |->
       <<NumberToString(keys[i]), object[NumberToString(keys[i])]>>]

\* the loop of importState over the entries
RECURSIVE ImportEntries(_, _, _, _, _)
ImportEntries(entries, i, grid, rBits, cBits) ==
  IF i > Len(entries) THEN grid
  ELSE ImportEntries(entries, i + 1,
         WithValue(grid, rBits, cBits, parseInt(entries[i][1]), entries[i][2]),
         rBits, cBits)

importState(state) ==
  LET dims == calculateGridDimensions(Len(state.inputVariables))
  IN /\ inputVariables' = state.inputVariables
     /\ outputVariable' = state.outputVariable
     /\ rowBits' = dims.rowBits
     /\ colBits' = dims.colBits
     /\ focusedRow' = 0
     /\ focusedCol' = 0
     /\ cells' = ImportEntries(ObjectEntries(state.cellValues), 1,
                               GridCells(Len(state.inputVariables)),
                               dims.rowBits, dims.colBits)
     /\ onesLoops' = <<>>
     /\ zerosLoops' = <<>>
     /\ UNCHANGED mode

chars == <<"A", "B", "C", "D", "E", "F", "G", "H", "I", "J", "K", "L", "M",
           "N", "O", "P", "Q", "R", "S", "T", "U", "V", "W", "X", "Y", "Z">>

getNextVariableName ==
  LET index == Len(inputVariables)
  IN IF index < Len(chars) THEN chars[index + 1]
     ELSE chars[(index % Len(chars)) + 1] \o NumberToString(index \div Len(chars))

\* addVariable(name): nameArg is <<>> when name is not supplied, <<name>> else
addVariable(nameArg) ==
  LET newName == IF nameArg # <<>> THEN nameArg[1] ELSE getNextVariableName
  IN /\ inputVariables' = Append(inputVariables, newName)
     /\ initializeGrid(Append(inputVariables, newName))
     /\ UNCHANGED <<outputVariable, mode>>

\* mutant of removeVariable: the test on the length is missing
removeVariable_always ==
  /\ inputVariables' = SubSeq(inputVariables, 1, Len(inputVariables) - 1)
  /\ initializeGrid(SubSeq(inputVariables, 1, Len(inputVariables) - 1))
  /\ UNCHANGED <<outputVariable, mode>>

removeVariable ==
  IF Len(inputVariables) > 1
  THEN /\ inputVariables' = SubSeq(inputVariables, 1, Len(inputVariables) - 1)
       /\ initializeGrid(SubSeq(inputVariables, 1, Len(inputVariables) - 1))
       /\ UNCHANGED <<outputVariable, mode>>
  ELSE UNCHANGED <<inputVariables, outputVariable, mode, cells, rowBits, colBits,
                   focusedRow, focusedCol, onesLoops, zerosLoops>>

(***************************************************************************)
(* The component after ngOnInit, and the calls made on it.  The inputs     *)
(* inputVariables and mode are chosen in the initial state.  A caller that *)
(* holds an exported state calls reset, addVariable, removeVariable or     *)
(* importState next, and drops the state once it is imported.              *)
(***************************************************************************)
\* the number of cells that hold a value, plus the number of selected cells
Marked(grid) ==
  LET places == {<<r, c>> \in (DOMAIN grid) \X (DOMAIN grid[1]) : TRUE}
  IN Cardinality({p \in places : grid[p[1]][p[2]].value # ECellValue_Undefined})
     + Cardinality({p \in places : grid[p[1]][p[2]].isSelected})

\* the component with the inputs names and m, once ngOnInit has run
Initialized(names, m) ==
  LET dims == calculateGridDimensions(Len(names))
  IN /\ inputVariables = names
     /\ outputVariable = "Y"
     /\ mode = m
     /\ rowBits = dims.rowBits
     /\ colBits = dims.colBits
     /\ cells = GridCells(Len(names))
     /\ focusedRow = 0
     /\ focusedCol = 0
     /\ exported = NoState
     /\ onesLoops = <<>>
     /\ zerosLoops = <<>>
     /\ pending = <<>>
     /\ modeChange = <<>>
     /\ solved = <<>>

InitMap ==
  /\ \E n \in 1..MaxMapVars, m \in {EEditMode_Edit, EEditMode_Solve} :
       Initialized(SubSeq(chars, 1, n), m)
  /\ IdleSolver
  /\ IdleCalls

\* the names given to addVariable
NameArgs == {<<>>, <<"Q">>}

NextMap ==
  \/ /\ exported = NoState
     /\ \E m \in 0..Pow2(Len(inputVariables)), value \in CellValues : setValue(m, value)
     /\ Marked(cells') <= MaxMarked
     /\ modeChange' = <<>>
     /\ UNCHANGED <<exported, pending, solved, vars_solver, vars_calls>>
  \/ /\ exported = NoState
     /\ \E row \in 0..(Len(cells) - 1), col \in 0..(Len(cells[1]) - 1) : onCellClick(row, col)
     /\ Marked(cells') <= MaxMarked
     /\ modeChange' = <<>>
     /\ UNCHANGED <<exported, pending, solved, vars_solver, vars_calls>>
  \/ /\ exported = NoState
     /\ \E key \in Keys : onKeyDown(key)
     /\ Marked(cells') <= MaxMarked
     /\ modeChange' = <<>>
     /\ UNCHANGED <<exported, pending, solved, vars_solver, vars_calls>>
  \/ /\ exported = NoState
     /\ clearSelection
     /\ modeChange' = <<>>
     /\ UNCHANGED <<exported, pending, solved, vars_solver, vars_calls>>
  \/ /\ exported = NoState
     /\ \E m \in {EEditMode_Edit, EEditMode_Solve} : setMode(m)
     /\ UNCHANGED <<exported, pending, solved, vars_solver, vars_calls>>
  \/ /\ reset
     /\ modeChange' = <<>>
     /\ UNCHANGED <<exported, pending, solved, vars_solver, vars_calls>>
  \/ /\ exported = NoState
     /\ exported' = exportState
     /\ modeChange' = <<>>
     /\ UNCHANGED <<inputVariables, outputVariable, mode, cells, rowBits, colBits,
                    focusedRow, focusedCol, onesLoops, zerosLoops, pending, solved,
                    vars_solver, vars_calls>>
  \/ /\ exported # NoState
     /\ importState(exported)
     /\ exported' = NoState
     /\ modeChange' = <<>>
     /\ UNCHANGED <<pending, solved, vars_solver, vars_calls>>
  \/ /\ Len(inputVariables) < MaxMapVars
     /\ \E nameArg \in NameArgs : addVariable(nameArg)
     /\ modeChange' = <<>>
     /\ UNCHANGED <<exported, pending, solved, vars_solver, vars_calls>>
  \/ /\ removeVariable
     /\ modeChange' = <<>>
     /\ UNCHANGED <<exported, pending, solved, vars_solver, vars_calls>>

SpecMap == InitMap /\ [][NextMap]_vars_all

(***************************************************************************)
(* The grids of 1 to MaxGridVars variables, and setValue on them.          *)
(***************************************************************************)
InitGrid ==
  /\ \E n \in 1..MaxGridVars : Initialized(SubSeq(chars, 1, n), EEditMode_Edit)
  /\ IdleSolver
  /\ IdleCalls

NextGrid ==
  /\ \E m \in 0..Pow2(Len(inputVariables)) : setValue(m, ECellValue_One)
  /\ Marked(cells') <= MaxFilled
  /\ modeChange' = <<>>
  /\ UNCHANGED <<exported, pending, solved, vars_solver, vars_calls>>

SpecGrid == InitGrid /\ [][NextGrid]_vars_all

(***************************************************************************)
(* solveAutomatically with an injected solver whose solve() settles in a   *)
(* later task.  A call runs up to its first await, and each continuation   *)
(* runs when the awaited solve() has settled; the calls made on the        *)
(* component in between see and change the same fields.  pending holds,    *)
(* for every suspended call, its locals ones, zeros and dontcares, the     *)
(* solve() it awaits and the numVariables passed to that solve().  The     *)
(* field afterReset of a suspended call is history kept for the            *)
(* properties: it is TRUE until reset, initializeGrid or importState runs. *)
(***************************************************************************)
\* the minterms of the cells that hold value, in the order of the two loops
\* "for (const row of this.cells) for (const cell of row)"
RECURSIVE Collect(_, _, _)
Collect(list, i, value) ==
  IF i > Len(list) THEN <<>>
  ELSE (IF list[i].value = value THEN <<list[i].minterm>> ELSE <<>>)
       \o Collect(list, i + 1, value)

\* what solverInstance.solve(ms, dcs, n) resolves to: the solver is injected,
\* and the loops it computes are known by the arguments they are computed from
solverInstance_solve(ms, dcs, n) ==
  <<[from |-> [minterms |-> ms, dontcares |-> dcs, numVariables |-> n]]>>

\* pending once the call at index i has returned
Settled(calls, i) == SubSeq(calls, 1, i - 1) \o SubSeq(calls, i + 1, Len(calls))

\* solveAutomatically() up to its first await, or to its end when neither
\* ones nor zeros has an element
solveAutomatically ==
  LET list == CellsInOrder(cells, 1)
      ones == Collect(list, 1, ECellValue_One)
      zeros == Collect(list, 1, ECellValue_Zero)
      dcs == Collect(list, 1, ECellValue_DontCare)
      call == [ones |-> ones, zeros |-> zeros, dontcares |-> dcs,
               numVariables |-> Len(inputVariables), afterReset |-> TRUE]
  IN /\ IF Len(ones) > 0
        THEN /\ pending' = Append(pending, [awaits |-> "ones"] @@ call)
             /\ solved' = <<>>
             /\ UNCHANGED <<onesLoops, zerosLoops>>
        ELSE /\ onesLoops' = <<>>
             /\ IF Len(zeros) > 0
                THEN /\ pending' = Append(pending, [awaits |-> "zeros"] @@ call)
                     /\ solved' = <<>>
                     /\ UNCHANGED zerosLoops
                ELSE /\ zerosLoops' = <<>>
                     /\ solved' = <<[onesLoops |-> <<>>, zerosLoops |-> <<>>]>>
                     /\ UNCHANGED pending
     /\ UNCHANGED <<inputVariables, outputVariable, mode, cells, rowBits, colBits,
                    focusedRow, focusedCol>>

\* the continuation of call i after "await solverInstance.solve(ones, ...)"
OnesSolved(i) ==
  LET call == pending[i]
      loops == solverInstance_solve(call.ones, call.dontcares, call.numVariables)
  IN /\ call.awaits = "ones"
     /\ onesLoops' = loops
     /\ IF Len(call.zeros) > 0
        THEN /\ pending' = [pending EXCEPT ![i].awaits = "zeros",
                                           ![i].numVariables = Len(inputVariables)]
             /\ solved' = <<>>
             /\ UNCHANGED zerosLoops
        ELSE /\ zerosLoops' = <<>>
             /\ solved' = <<[onesLoops |-> loops, zerosLoops |-> <<>>]>>
             /\ pending' = Settled(pending, i)
     /\ UNCHANGED <<inputVariables, outputVariable, mode, cells, rowBits, colBits,
                    focusedRow, focusedCol>>

\* the continuation of call i after "await solverInstance.solve(zeros, ...)"
ZerosSolved(i) ==
  LET call == pending[i]
      loops == solverInstance_solve(call.zeros, call.dontcares, call.numVariables)
  IN /\ call.awaits = "zeros"
     /\ zerosLoops' = loops
     /\ solved' = <<[onesLoops |-> onesLoops, zerosLoops |-> loops]>>
     /\ pending' = Settled(pending, i)
     /\ UNCHANGED <<inputVariables, outputVariable, mode, cells, rowBits, colBits,
                    focusedRow, focusedCol, onesLoops>>

\* the suspended calls once reset or a re-initialization of the grid has run
Overtaken(calls) == [i \in DOMAIN calls |-> [calls[i] EXCEPT !.afterReset = FALSE]]

InitAsync ==
  /\ \E n \in 1..MaxMapVars : Initialized(SubSeq(chars, 1, n), EEditMode_Edit)
  /\ IdleSolver
  /\ IdleCalls

NextAsync ==
  \/ /\ exported = NoState
     /\ \E m \in 0..(Pow2(Len(inputVariables)) - 1), value \in CellValues :
          setValue(m, value)
     /\ Marked(cells') <= MaxValued
     /\ modeChange' = <<>>
     /\ solved' = <<>>
     /\ UNCHANGED <<exported, pending, vars_solver, vars_calls>>
  \/ /\ Len(pending) < MaxInFlight
     /\ solveAutomatically
     /\ modeChange' = <<>>
     /\ UNCHANGED <<exported, vars_solver, vars_calls>>
  \/ /\ \E i \in DOMAIN pending : OnesSolved(i)
     /\ modeChange' = <<>>
     /\ UNCHANGED <<exported, vars_solver, vars_calls>>
  \/ /\ \E i \in DOMAIN pending : ZerosSolved(i)
     /\ modeChange' = <<>>
     /\ UNCHANGED <<exported, vars_solver, vars_calls>>
  \/ /\ reset
     /\ pending' = Overtaken(pending)
     /\ modeChange' = <<>>
     /\ solved' = <<>>
     /\ UNCHANGED <<exported, vars_solver, vars_calls>>
  \/ /\ exported = NoState
     /\ exported' = exportState
     /\ modeChange' = <<>>
     /\ solved' = <<>>
     /\ UNCHANGED <<inputVariables, outputVariable, mode, cells, rowBits, colBits,
                    focusedRow, focusedCol, onesLoops, zerosLoops, pending,
                    vars_solver, vars_calls>>
  \/ /\ exported # NoState
     /\ importState(exported)
     /\ exported' = NoState
     /\ pending' = Overtaken(pending)
     /\ modeChange' = <<>>
     /\ solved' = <<>>
     /\ UNCHANGED <<vars_solver, vars_calls>>
  \/ /\ Len(inputVariables) < MaxMapVars
     /\ addVariable(<<>>)
     /\ pending' = Overtaken(pending)
     /\ modeChange' = <<>>
     /\ solved' = <<>>
     /\ UNCHANGED <<exported, vars_solver, vars_calls>>
  \/ /\ removeVariable
     /\ pending' = IF Len(inputVariables) > 1 THEN Overtaken(pending) ELSE pending
     /\ modeChange' = <<>>
     /\ solved' = <<>>
     /\ UNCHANGED <<exported, vars_solver, vars_calls>>

SpecAsync == InitAsync /\ [][NextAsync]_vars_all

(***************************************************************************)
(* Vocabulary of the properties of the component.                          *)
(***************************************************************************)
\* the places of a grid, as pairs of 1-based indices
Places(grid) == {p \in (DOMAIN grid) \X (DOMAIN grid[1]) : TRUE}

CellOf(grid, p) == grid[p[1]][p[2]]

\* the minterm indices of a map over these variables
MintermsOf(names) == 0..(Pow2(Len(names)) - 1)

\* the value that follows v in the cycle of the Edit mode
Successor(v) ==
  CASE v = ECellValue_Undefined -> ECellValue_Zero
    [] v = ECellValue_Zero -> ECellValue_One
    [] v = ECellValue_One -> ECellValue_DontCare
    [] v = ECellValue_DontCare -> ECellValue_Undefined

\* the value an exported state records for minterm m
ValueIn(state, m) ==
  IF NumberToString(m) \in DOMAIN state.cellValues
  THEN state.cellValues[NumberToString(m)]
  ELSE ECellValue_Undefined

\* C17: a click on a cell in Edit mode replaces its value by the next one of
\* the cycle Undefined, Zero, One, DontCare, Undefined, so that three more
\* clicks give the value back, and changes nothing else of the grid; a click
\* in Solve mode inverts the isSelected flag of the cell, changes no other
\* flag and no value.
C17_ClickCycle ==
  [][\A p \in Places(cells) :
       onCellClick(p[1] - 1, p[2] - 1) =>
         IF mode = EEditMode_Edit
         THEN /\ CellOf(cells', p).value = Successor(CellOf(cells, p).value)
              /\ toggleCellValue(toggleCellValue(toggleCellValue(CellOf(cells', p).value)))
                   = CellOf(cells, p).value
              /\ CellOf(cells', p).isSelected = CellOf(cells, p).isSelected
              /\ \A q \in Places(cells) \ {p} : CellOf(cells', q) = CellOf(cells, q)
         ELSE /\ CellOf(cells', p).isSelected = ~CellOf(cells, p).isSelected
              /\ \A q \in Places(cells) : CellOf(cells', q).value = CellOf(cells, q).value
              /\ \A q \in Places(cells) \ {p} : CellOf(cells', q) = CellOf(cells, q)
    ]_vars_all

C17_Witness ==
  /\ mode = EEditMode_Edit
  /\ Len(inputVariables) = 2
  /\ cells[2][2].value = ECellValue_DontCare
  /\ focusedRow = 1
  /\ focusedCol = 1

\* C18: exportState records the variable names and, for every minterm index,
\* the value of its cell (none for Undefined); importState of a state, also
\* after reset, addVariable or removeVariable, sets the variable names to
\* the recorded ones and leaves every cell, addressed by minterm index, with
\* the recorded value.
C18_ExportImportRoundTrip ==
  [][/\ (exported = NoState /\ exported' # NoState) =>
          /\ exported'.inputVariables = inputVariables
          /\ \A m \in MintermsOf(inputVariables) : ValueIn(exported', m) = getValue(m)
     /\ (exported # NoState /\ exported' = NoState) =>
          /\ inputVariables' = exported.inputVariables
          /\ outputVariable' = exported.outputVariable
          /\ Cardinality(Places(cells')) = Pow2(Len(exported.inputVariables))
          /\ \A m \in MintermsOf(exported.inputVariables) :
               getValue(m)' = ValueIn(exported, m)
    ]_vars_all

C18_Witness ==
  /\ exported # NoState
  /\ exported.inputVariables = <<"A", "Q">>
  /\ ValueIn(exported, 0) = ECellValue_Undefined
  /\ ValueIn(exported, 3) = ECellValue_DontCare
  /\ inputVariables = <<"A">>
  /\ \A p \in Places(cells) : CellOf(cells, p).value = ECellValue_Undefined

\* C19: in the grid of n variables, n from 1 to MaxGridVars, every minterm
\* index 0..2^n-1 is the minterm of exactly one cell, mintermToGridPosition
\* gives for the minterm of a cell the place of that cell and
\* gridPositionToMinterm gives the minterm back, and for every index m and
\* value x the grid left by setValue(m, x) has x where getValue(m) reads and
\* differs from the grid before in the value of the cell of minterm m only.
C19_GrayCodeBijection ==
  LET n == Len(inputVariables)
  IN (n \in 1..MaxGridVars) =>
       /\ Cardinality(Places(cells)) = Pow2(n)
       /\ \A m \in MintermsOf(inputVariables) :
            Cardinality({p \in Places(cells) : CellOf(cells, p).minterm = m}) = 1
       /\ \A p \in Places(cells) :
            /\ mintermToGridPosition(CellOf(cells, p).minterm, rowBits, colBits)
                 = [row |-> p[1] - 1, col |-> p[2] - 1]
            /\ gridPositionToMinterm(p[1] - 1, p[2] - 1, rowBits, colBits)
                 = CellOf(cells, p).minterm
       /\ \A m \in MintermsOf(inputVariables), x \in CellValues :
            LET after == WithValue(cells, rowBits, colBits, m, x)
                target == CHOOSE p \in Places(cells) : CellOf(cells, p).minterm = m
            IN /\ ValueAt(after, rowBits, colBits, m) = x
               /\ after = [cells EXCEPT ![target[1]][target[2]].value = x]

C19_Witness ==
  /\ Len(inputVariables) = MaxGridVars
  /\ cells[6][6].minterm = 63
  /\ cells[6][6].value = ECellValue_One
  /\ getValue(63) = ECellValue_One

\* C20: the map always has at least one input variable; removeVariable on a
\* map of one variable leaves the variables, the grid and the cell values as
\* they are, and on a map of more variables removes the last variable and
\* no other.
C20_AtLeastOneVariable ==
  /\ [](Len(inputVariables) >= 1)
  /\ [][removeVariable =>
          IF Len(inputVariables) = 1
          THEN UNCHANGED <<inputVariables, cells, rowBits, colBits>>
          ELSE inputVariables' = SubSeq(inputVariables, 1, Len(inputVariables) - 1)
       ]_vars_all

C20_Witness ==
  /\ inputVariables = <<"A">>
  /\ cells[1][2].value = ECellValue_One
  /\ focusedCol = 1

(***************************************************************************)
(* Further properties of solve: prime implicants, the coverage table and   *)
(* the two selection steps.                                                *)
(***************************************************************************)
\* findPrimeImplicants has returned a non-empty list: table2 holds its rows
TableBuilt == pc \in {"essential", "petrick", "returned"} /\ table2 # NoTable

\* bs with position k made DontCare
Widened(bs, k) == [bs EXCEPT ![k] = ELogicState_DontCare]

\* the bit pattern bs matches the value m
Matches(bs, m) ==
  \A k \in DOMAIN bs :
    bs[k] = ELogicState_DontCare
      \/ bs[k] = (IF BitOf(m, Len(bs) - k) = 1 THEN ELogicState_True ELSE ELogicState_False)

\* the bit patterns of n positions that are prime implicants of the care set
PrimeCubes(n) ==
  LET within == {bs \in Patterns(n) :
                   \A m \in 0..(Pow2(n) - 1) : Matches(bs, m) => m \in CareSet}
  IN {bs \in within :
        \A k \in DOMAIN bs :
          bs[k] # ELogicState_DontCare => Widened(bs, k) \notin within}

RowPatterns == {table2.rows[r].record.bits : r \in DOMAIN table2.rows}

\* findPrimeImplicants has just returned a non-empty list
PrimeImplicantsReturned == pc = "essential"

\* C21: for in-range terms the bit patterns of the records returned by
\* findPrimeImplicants (the rows of the coverage table) are exactly the
\* patterns whose values all lie in minterms \cup dontcares and that cannot
\* be widened at any determined position without leaving that set.
C21_ExactlyThePrimeImplicants ==
  (PrimeImplicantsReturned /\ InRange) => RowPatterns = PrimeCubes(vars.n)

\* C21 witness: over two variables with minterms 0, 1 and don't-care 3 the
\* prime implicants are 0- and -1, the second reaching into the don't-care.
C21_Witness ==
  /\ PrimeImplicantsReturned
  /\ InRange
  /\ minterms = <<0, 1>>
  /\ dontcares = <<3>>
  /\ vars = Num(2)
  /\ RowPatterns = {<<ELogicState_False, ELogicState_DontCare>>,
                    <<ELogicState_DontCare, ELogicState_True>>}

(***************************************************************************)
(* Further properties of the method calls.                                 *)
(***************************************************************************)
\* the 0-based positions at which two patterns of one length differ
Differing(xs, ys) == {i \in 0..(Len(xs) - 1) : xs[i + 1] # ys[i + 1]}

\* the patterns have one length, differ at position p and nowhere else, and
\* neither is DontCare at p
CombinableAt(xs, ys, p) ==
  /\ Len(xs) = Len(ys)
  /\ Differing(xs, ys) = {p}
  /\ xs[p + 1] # ELogicState_DontCare
  /\ ys[p + 1] # ELogicState_DontCare

\* C22: a.canCombineWith(b) returns the position p exactly when a and b have
\* one length, differ at p and nowhere else and neither is DontCare at p; in
\* every other case (no difference, several differences, a difference where
\* one side is DontCare, unequal lengths) it returns -1; and the records for
\* which a position is returned, the only ones combineColumn merges, have
\* numbers of True bits that differ by exactly one.
C22_CanCombineWithExactlyOneDifference ==
  (invoked.op = "canCombineWith" /\ returned.op = "canCombineWith")
    => LET a == invoked.this
           b == invoked.other
       IN /\ \A p \in 0..MaxBits :
               returned.value = p <=> CombinableAt(a.bits, b.bits, p)
          /\ returned.value \in (-1)..(Len(a.bits) - 1)
          /\ returned.value >= 0
               => \/ countOnes(a) = countOnes(b) + 1
                  \/ countOnes(b) = countOnes(a) + 1

\* C22 witness: the call for the patterns 0- and 1- has returned position 0.
C22_Witness ==
  /\ invoked.op = "canCombineWith"
  /\ returned.op = "canCombineWith"
  /\ invoked.this.bits = <<ELogicState_False, ELogicState_DontCare>>
  /\ invoked.other.bits = <<ELogicState_True, ELogicState_DontCare>>
  /\ returned.value = 0

\* the minterm list of the call names no value twice
NoRepeats == \A i, j \in DOMAIN minterms : minterms[i] = minterms[j] => i = j

\* C23: when findEssentialPrimeImplicants returns, no column that is not
\* marked covered is covered by exactly one unselected row, a second scan of
\* the columns selects nothing, and every column covered by a selected row
\* is marked covered.
C23_EssentialFixedPoint ==
  [][FindEssential =>
       LET t == table2'
       IN /\ \A c \in DOMAIN t.columns :
               ~t.columns[c].isCovered
                 => Cardinality(CoveringRows(t, t.columns[c].minterm)) # 1
          /\ findEssentialPrimeImplicants(t).essential = <<>>
          /\ \A c \in DOMAIN t.columns, r \in DOMAIN t.rows :
               (t.rows[r].isSelected /\ coversMinterm(t.rows[r], t.columns[c].minterm))
                 => t.columns[c].isCovered
    ]_vars_all

\* C28: in the coverage table, from its construction on and after every
\* selection of a row, a column is marked covered exactly when its minterm
\* is not in the uncovered set, and isFullyCovered() is true exactly when
\* every column is marked covered, whatever the minterm list, lists that
\* name a value more than once included.
C28_FlagsAgreeWithUncoveredSet ==
  TableBuilt =>
    /\ \A c \in DOMAIN table2.columns :
         table2.columns[c].isCovered
           <=> table2.columns[c].minterm \notin getUncoveredMinterms(table2)
    /\ isFullyCovered(table2)
         <=> \A c \in DOMAIN table2.columns : table2.columns[c].isCovered

\* the prime implicants that alone cover some requested minterm
EssentialCubes(n) ==
  LET primes == PrimeCubes(n)
  IN {bs \in primes :
        \E m \in Requested :
          /\ Matches(bs, m)
          /\ \A other \in primes \ {bs} : ~Matches(other, m)}

ResultPatterns == {result[i].bits : i \in DOMAIN result}

\* C24: when solve returns for in-range terms, every prime implicant that is
\* the only prime implicant covering some requested minterm is the pattern
\* of one of the returned loops.
C24_EssentialsReturned ==
  (Finished /\ InRange /\ minterms # <<>>) => EssentialCubes(vars.n) \subseteq ResultPatterns

\* C24 witness: for minterms 0, 1 and don't-care 3 the prime implicants are
\* 0- and -1; 0- alone covers 0 and is the loop returned.
C24_Witness ==
  /\ Finished
  /\ InRange
  /\ minterms = <<0, 1>>
  /\ dontcares = <<3>>
  /\ vars = Num(2)
  /\ Cardinality(PrimeCubes(2)) = 2
  /\ EssentialCubes(2) = {<<ELogicState_False, ELogicState_DontCare>>}
  /\ ResultPatterns = {<<ELogicState_False, ELogicState_DontCare>>}

\* the number of minterms of the set U that row r of table t covers
Gain(t, r, U) == Cardinality(SeqToSet(t.rows[r].record.minterms) \cap U)

Literals(t, r) == Len(t.rows[r].record.bits) - DontCareCount(t.rows[r].record.bits)

Unselected(t) == {r \in DOMAIN t.rows : ~t.rows[r].isSelected}

\* the step selects a row in the loop of applyPetricksMethod
ResidualSelection == PetrickStep /\ residual' # residual

\* C25: in each iteration of the residual step the row selected is an
\* unselected row that covers the largest number of minterms still uncovered
\* among the unselected rows, and among the rows covering that many it has
\* the fewest literals; the uncovered set after the iteration is a proper
\* subset of the one before, so that the step makes no more iterations than
\* there are requested minterms.
C25_GreedySelection ==
  /\ [][ResidualSelection =>
          LET r == residual'[Len(residual')]
              U == getUncoveredMinterms(table2)
          IN /\ r \in Unselected(table2)
             /\ \A x \in Unselected(table2) :
                  /\ Gain(table2, x, U) <= Gain(table2, r, U)
                  /\ Gain(table2, x, U) = Gain(table2, r, U)
                       => Literals(table2, r) <= Literals(table2, x)
             /\ getUncoveredMinterms(table2') \subseteq U
             /\ getUncoveredMinterms(table2') # U
       ]_vars_all
  /\ [](Len(residual) <= Cardinality(Requested))

\* C25 witness: minterm 0 with don't-cares 1, 2, 3, 4 has the prime
\* implicants 0-- and -00, none essential, both covering the one uncovered
\* minterm; the residual step has selected 0--, the one with fewer literals.
C25_Witness ==
  /\ pc = "returned"
  /\ minterms = <<0>>
  /\ dontcares = <<1, 2, 3, 4>>
  /\ Len(table2.rows) = 2
  /\ essential = <<>>
  /\ Len(residual) = 1
  /\ ResultPatterns = {<<ELogicState_False, ELogicState_DontCare, ELogicState_DontCare>>}

\* the minterms of the rows at positions 1..k of a list of row indices
CoveredByFirst(t, rs, k) ==
  UNION {SeqToSet(t.rows[rs[j]].record.minterms) : j \in 1..k}

\* C26: the columns are the requested minterms only, and a row is selected,
\* by the essential step or by the residual step, only when it covers a
\* requested minterm that no row selected before it covers; every returned
\* loop therefore contains a requested minterm.
C26_SelectedRowsCoverUncovered ==
  /\ [][FindEssential =>
          \A k \in DOMAIN essential' :
            Gain(table2, essential'[k],
                 Requested \ CoveredByFirst(table2, essential', k - 1)) > 0
       ]_vars_all
  /\ [][ResidualSelection =>
          Gain(table2, residual'[Len(residual')], getUncoveredMinterms(table2)) > 0
       ]_vars_all
  /\ [](TableBuilt => {table2.columns[c].minterm : c \in DOMAIN table2.columns} = Requested)
  /\ [](Finished => \A i \in DOMAIN result : SeqToSet(result[i].minterms) \cap Requested # {})

\* the records of the generation being combined and the records collected
\* from the generations before it
RecordsSoFar == SeqToSet(getAllRecords(currentColumn)) \cup SeqToSet(allPrimeImplicants)

\* C27: during a call of solve with in-range terms, every record of every
\* generation has as minterms, in ascending order and each once, exactly
\* the values of [0, 2^vars - 1] that its bit pattern matches, 2^d of them
\* for d DontCare positions; two records have the same key exactly when
\* they have the same bit pattern.
C27_RecordsAreCubes ==
  (InRange /\ pc \in {"combine", "essential", "petrick", "returned"})
    => /\ \A rec \in RecordsSoFar :
            /\ Len(rec.bits) = vars.n
            /\ rec.minterms = AscendingSeq(CubeValues(rec.bits))
            /\ Len(rec.minterms) = Pow2(DontCareCount(rec.bits))
       /\ \A r1, r2 \in RecordsSoFar :
            getKey(r1) = getKey(r2) <=> r1.bits = r2.bits

\* C27 witness: the third generation of the call for the minterms 0, 1, 2, 3
\* holds the record of the pattern -- with its four minterms.
C27_Witness ==
  /\ InRange
  /\ pc = "combine"
  /\ generation = 2
  /\ vars = Num(2)
  /\ \E rec \in RecordsSoFar :
       /\ rec.bits = <<ELogicState_DontCare, ELogicState_DontCare>>
       /\ rec.minterms = <<0, 1, 2, 3>>

\* C29: after any sequence of setMode, onCellClick, key presses,
\* clearSelection, reset, addVariable, removeVariable and importState on an
\* initialized component, no cell has isSelected = TRUE whenever the mode is
\* Edit, and setMode emits modeChange only when the mode actually changes:
\* the emitted value is then the new mode.
C29_EditModeHasNoSelection ==
  /\ [](mode = EEditMode_Edit =>
          \A p \in Places(cells) : ~CellOf(cells, p).isSelected)
  /\ [][modeChange' # <<>> => (mode' # mode /\ modeChange' = <<mode'>>)]_vars_all

\* a cell was selected in Solve mode, and setMode(Edit) has just been called
C29_Witness ==
  /\ mode = EEditMode_Edit
  /\ modeChange = <<EEditMode_Edit>>
  /\ focusedRow = 1
  /\ focusedCol = 1
  /\ cells[1][1].value = ECellValue_One

\* the loops that solveAutomatically computes from one snapshot of the cells
\* and one number of variables
LoopsOf(call, n) ==
  [onesLoops |-> IF Len(call.ones) > 0
                 THEN solverInstance_solve(call.ones, call.dontcares, n) ELSE <<>>,
   zerosLoops |-> IF Len(call.zeros) > 0
                  THEN solverInstance_solve(call.zeros, call.dontcares, n) ELSE <<>>]

\* C30: in every interleaving of reset, addVariable, removeVariable and
\* importState with solveAutomatically calls whose solver settles later, a
\* call stores loops in onesLoops or zerosLoops only if it was started after
\* the last reset or re-initialization of the grid, so that the two lists
\* stay empty until then, and every solved event carries the loops computed
\* from the snapshot of the cells that the emitting call has taken.
C30_NoStaleLoops ==
  [][\A i \in DOMAIN pending :
       /\ (OnesSolved(i) \/ ZerosSolved(i)) => pending[i].afterReset
       /\ ((OnesSolved(i) \/ ZerosSolved(i)) /\ solved' # <<>>) =>
            \E n \in 0..MaxGridVars : solved'[1] = LoopsOf(pending[i], n)
    ]_vars_all

====
